---------------------------- MODULE Spec2Model ----------------------------
(***************************************************************************)
(* A model of the eval execution engine of high-evals (main.go):           *)
(*   - the Eval Scheduler   (runAllEvalsParallel, runAllEvalsSequential,   *)
(*                           runAgentWithRetry),                           *)
(*   - the Session Driver   (runAgent),                                    *)
(*   - the Completion Tracker (waitForCompletion: stream reader and        *)
(*                           timeout watcher),                             *)
(*   - the Error Classifier (isTransientEvalError, isModelNotFoundError,   *)
(*                           extractErrorMessage).                         *)
(*                                                                         *)
(* Strings are sequences of tokens.  A token is a TLA+ string: a single    *)
(* character wherever the code looks at characters (model identifiers,     *)
(* folder names), and a whole fragment where the code only searches for    *)
(* that fragment (error messages).  "" of Go is the empty sequence.        *)
(*                                                                         *)
(* Spec        : a batch (sequential or parallel) of eval tasks; the call  *)
(*               of waitForCompletion is one step whose verdict is drawn   *)
(*               from the verdicts the tracker can return.                 *)
(* TrackerSpec : one call of waitForCompletion, reader and watcher         *)
(*               interleaved statement by statement.                       *)
(* FairTrackerSpec : TrackerSpec with the goroutines scheduled fairly.     *)
(* ClassifierSpec : one call of a function of the Error Classifier on a    *)
(*               message drawn from the messages of bounded length.        *)
(* SuggestionSpec : one call of isModelNotFoundError on a message drawn    *)
(*               from the messages explored.                               *)
(* ResumeSpec  : resumeCommand from the model selection to the calls of   *)
(*               runAgentWithRetry its batch makes.                        *)
(* FolderSpec  : one call of createTimestampFolder and the recovery of the *)
(*               prompt number from its folder, or one call of             *)
(*               parsePromptNumberFromFolder on a name.                    *)
(* ScanSpec    : one call of scanEvalFolders on a listing of evals/ and a  *)
(*               prompt list drawn from the ones explored.                 *)
(* PickerSpec  : one call of a function of the model picker               *)
(*               (pinSavedModels, pinSavedModelIDs, filterModels) on a     *)
(*               model list, a saved set and a query drawn from the ones   *)
(*               explored.                                                 *)
(* OptionsSpec : calls of applyRuntimeOptions, one after the other, with   *)
(*               the package variables as 64-bit integers.                 *)
(* ModelIdSpec : one call of a function of model identifiers              *)
(*               (sanitizeModelForFolder, normalizeModelID, parseModel)    *)
(*               on an identifier drawn from the identifiers explored.     *)
(***************************************************************************)
EXTENDS Integers, Sequences, FiniteSets, TLC

(***************************************************************************)
(* Bounds of the model.                                                    *)
(***************************************************************************)
\* largest value of --retries explored
MaxRetries == 1
\* number of tasks in the longest batch explored
MaxTasks == 2
\* seconds that may pass on the wall clock during a batch
MaxClock == 1
\* longest error message (in tokens) given to the Error Classifier
MaxMsgLen == 3
\* most tokens after the beginning of the messages given to
\* isModelNotFoundError
MaxTailLen == 5
\* longest tail (in characters) of the model identifiers explored
MaxIdLen == 3
\* longest folder name (in characters) given to parsePromptNumberFromFolder
MaxNameLen == 4
\* entries of the evals directory in the longest listing explored
MaxFolders == 1
\* prompts in the longest prompt list explored
MaxPrompts == 2
\* models in the longest model list explored
MaxModels == 3
\* longest search query (in characters) explored
MaxQueryLen == 3
\* largest small value of --inactivity-timeout and --retries given to
\* applyRuntimeOptions
MaxOption == 8
\* seconds that may pass during one call of waitForCompletion
MaxTime == 2
\* largest inactivity timeout (seconds) explored
MaxTimeout == 1
\* lines the event stream may deliver during one call of waitForCompletion
MaxLines == 2

(***************************************************************************)
(* Program constants.                                                      *)
(***************************************************************************)
basePort == 4096
defaultTransientRetries == 1
defaultInactivityTimeoutSeconds == 180
maxLen == 64

(***************************************************************************)
(* Strings.                                                                *)
(***************************************************************************)
\* strings.Contains(s, sub)
Contains(s, sub) ==
    \E i \in 0..(Len(s) - Len(sub)) :
        \A k \in 1..Len(sub) : s[i + k] = sub[k]

\* strings.Index(s, sub): offset of the first occurrence, -1 when there is none
Index(s, sub) ==
    IF Contains(s, sub)
    THEN CHOOSE i \in 0..(Len(s) - Len(sub)) :
            /\ \A k \in 1..Len(sub) : s[i + k] = sub[k]
            /\ \A j \in 0..(i - 1) : \E k \in 1..Len(sub) : s[j + k] # sub[k]
    ELSE -1

Whitespace == {" ", "\t", "\n", "\r"}

RECURSIVE TrimLeftSet(_, _)
TrimLeftSet(s, cut) ==
    IF s # <<>> /\ Head(s) \in cut THEN TrimLeftSet(Tail(s), cut) ELSE s

RECURSIVE TrimRightSet(_, _)
TrimRightSet(s, cut) ==
    IF s # <<>> /\ s[Len(s)] \in cut
    THEN TrimRightSet(SubSeq(s, 1, Len(s) - 1), cut)
    ELSE s

\* strings.Trim(s, cutset)
Trim(s, cut) == TrimRightSet(TrimLeftSet(s, cut), cut)

\* strings.TrimSpace(s)
TrimSpace(s) == Trim(s, Whitespace)

UpperToLower ==
    [c \in {"A","B","C","D","E","F","G","H","I","J","K","L","M",
            "N","O","P","Q","R","S","T","U","V","W","X","Y","Z"} |->
        CASE c = "A" -> "a" [] c = "B" -> "b" [] c = "C" -> "c" [] c = "D" -> "d"
          [] c = "E" -> "e" [] c = "F" -> "f" [] c = "G" -> "g" [] c = "H" -> "h"
          [] c = "I" -> "i" [] c = "J" -> "j" [] c = "K" -> "k" [] c = "L" -> "l"
          [] c = "M" -> "m" [] c = "N" -> "n" [] c = "O" -> "o" [] c = "P" -> "p"
          [] c = "Q" -> "q" [] c = "R" -> "r" [] c = "S" -> "s" [] c = "T" -> "t"
          [] c = "U" -> "u" [] c = "V" -> "v" [] c = "W" -> "w" [] c = "X" -> "x"
          [] c = "Y" -> "y" [] c = "Z" -> "z"]

\* strings.ToLower(s)
ToLower(s) ==
    [k \in 1..Len(s) |-> IF s[k] \in DOMAIN UpperToLower THEN UpperToLower[s[k]] ELSE s[k]]

LowerAlpha ==
    {"a","b","c","d","e","f","g","h","i","j","k","l","m",
     "n","o","p","q","r","s","t","u","v","w","x","y","z"}

Digit == {"0","1","2","3","4","5","6","7","8","9"}

DigitChar(d) ==
    CASE d = 0 -> "0" [] d = 1 -> "1" [] d = 2 -> "2" [] d = 3 -> "3" [] d = 4 -> "4"
      [] d = 5 -> "5" [] d = 6 -> "6" [] d = 7 -> "7" [] d = 8 -> "8" [] d = 9 -> "9"

\* fmt "%d" of a natural number
RECURSIVE Decimal(_)
Decimal(n) ==
    IF n < 10 THEN <<DigitChar(n)>> ELSE Decimal(n \div 10) \o <<DigitChar(n % 10)>>

\* fmt "%02d" of a natural number
Decimal2(n) == IF n < 10 THEN <<"0">> \o Decimal(n) ELSE Decimal(n)

(***************************************************************************)
(* Model identifiers and folder names.                                     *)
(***************************************************************************)
OpenrouterPrefix == <<"o","p","e","n","r","o","u","t","e","r","/">>
UnknownModel == <<"u","n","k","n","o","w","n","-","m","o","d","e","l">>

normalizeModelID(model) ==
    IF model = <<>> THEN <<>>
    ELSE IF Contains(model, <<"/">>) THEN model
    ELSE OpenrouterPrefix \o model

\* parseModel splitting at the last "/"
parseModelLastSlash(modelStr) ==
    LET cuts == {i \in 1..Len(modelStr) : modelStr[i] = "/"} IN
    IF cuts # {}
    THEN LET idx == CHOOSE i \in cuts : \A j \in cuts : j <= i IN
         <<SubSeq(modelStr, 1, idx - 1), SubSeq(modelStr, idx + 1, Len(modelStr))>>
    ELSE <<SubSeq(OpenrouterPrefix, 1, Len(OpenrouterPrefix) - 1), modelStr>>
parseModel(modelStr) ==
    LET idx == Index(modelStr, <<"/">>) IN
    IF idx # -1
    THEN <<SubSeq(modelStr, 1, idx), SubSeq(modelStr, idx + 2, Len(modelStr))>>
    ELSE <<SubSeq(OpenrouterPrefix, 1, Len(OpenrouterPrefix) - 1), modelStr>>

\* the cut set of line 1761 without "_" and "."
FolderTrimSetDashOnly == {"-"}
\* line 1761: the cut set "-_."
FolderTrimSet == {"-", "_", "."}

\* the body of the loop writing every character as it is
SanitizeStepKeepsAll(r, st) == [b |-> Append(st.b, r), prevDash |-> FALSE]
\* lines 1747-1758, the body of the loop of sanitizeModelForFolder for the
\* character r: st.b is the builder, st.prevDash the flag
SanitizeStep(r, st) ==
    IF r \in LowerAlpha \/ r \in Digit \/ r = "-" \/ r = "_" \/ r = "."
    THEN [b |-> Append(st.b, r), prevDash |-> FALSE]
    ELSE IF ~st.prevDash
         THEN [b |-> Append(st.b, "-"), prevDash |-> TRUE]
         ELSE st

\* the loop of sanitizeModelForFolder: the body is applied to the characters
\* of rest from left to right; the state after the first half of rest is
\* computed before the second half is entered
RECURSIVE SanitizeLoop(_, _)
SanitizeLoop(rest, st) ==
    IF rest = <<>> THEN st
    ELSE IF Len(rest) = 1 THEN SanitizeStep(rest[1], st)
    ELSE LET half == Len(rest) \div 2
             mid == SanitizeLoop(SubSeq(rest, 1, half), st)
         IN  IF mid.prevDash \in BOOLEAN
             THEN SanitizeLoop(SubSeq(rest, half + 1, Len(rest)), mid)
             ELSE mid

sanitizeModelForFolder(model0) ==
    LET model == ToLower(normalizeModelID(TrimSpace(model0))) IN
    IF model = <<>> THEN UnknownModel
    ELSE LET sanitized == Trim(SanitizeLoop(model, [b |-> <<>>, prevDash |-> FALSE]).b, FolderTrimSet) IN
         IF sanitized = <<>> THEN UnknownModel
         ELSE IF Len(sanitized) > maxLen
              THEN LET cut == TrimRightSet(SubSeq(sanitized, 1, maxLen), FolderTrimSet) IN
                   IF cut = <<>> THEN UnknownModel ELSE cut
              ELSE sanitized

\* time.Now() formatted "%d-%02d-%02d_%02d-%02d-%02d"; the wall clock of the
\* model counts the seconds of one minute
TimeStamp(sec) ==
    <<"2","0","2","6","-","0","1","-","0","1","_","0","0","-","0","0","-">> \o Decimal2(sec)

createTimestampFolder(index, promptNumber0, model, sec) ==
    LET promptNumber == IF promptNumber0 < 1 THEN 0 ELSE promptNumber0 IN
    <<"e","v","a","l","s","/">> \o TimeStamp(sec) \o <<"_","p">> \o Decimal(promptNumber)
        \o <<"_">> \o Decimal(index) \o <<"_">> \o sanitizeModelForFolder(model)

\* filepath.Base(path): the element after the last separator
RECURSIVE Base(_)
Base(path) ==
    IF path = <<>> THEN <<".">>
    ELSE IF path[Len(path)] = "/"
         THEN IF Len(path) = 1 THEN <<"/">> ELSE Base(SubSeq(path, 1, Len(path) - 1))
         ELSE IF Contains(path, <<"/">>)
              THEN LET last == CHOOSE i \in 1..Len(path) :
                                  /\ path[i] = "/"
                                  /\ \A j \in (i + 1)..Len(path) : path[j] # "/"
                   IN SubSeq(path, last + 1, Len(path))
              ELSE path

\* strconv.Atoi of a string of decimal digits
RECURSIVE Atoi(_)
Atoi(ds) ==
    IF ds = <<>> THEN 0
    ELSE 10 * Atoi(SubSeq(ds, 1, Len(ds) - 1))
         + (CHOOSE d \in 0..9 : DigitChar(d) = ds[Len(ds)])

\* the end of the longest run of digits of s that starts at position i
RECURSIVE DigitRunEnd(_, _)
DigitRunEnd(s, i) ==
    IF i <= Len(s) /\ s[i] \in Digit THEN DigitRunEnd(s, i + 1) ELSE i - 1

\* positions where promptNumberRE, (?:^|_)p(\d+)(?:_|$), matches: the "p"
PromptMarkers(s) ==
    {i \in 1..Len(s) :
        /\ s[i] = "p"
        /\ (i = 1 \/ s[i - 1] = "_")
        /\ DigitRunEnd(s, i + 1) > i
        /\ (DigitRunEnd(s, i + 1) = Len(s) \/ s[DigitRunEnd(s, i + 1) + 1] = "_")}

\* parsePromptNumberFromFolder taking the last match instead of the first
parsePromptNumberFromFolderLast(folderName) ==
    IF PromptMarkers(folderName) = {} THEN 0
    ELSE LET i == CHOOSE m \in PromptMarkers(folderName) :
                      \A o \in PromptMarkers(folderName) : m >= o
             n == Atoi(SubSeq(folderName, i + 1, DigitRunEnd(folderName, i + 1)))
         IN IF n < 1 THEN 0 ELSE n
\* parsePromptNumberFromFolder, lines 1787-1798
parsePromptNumberFromFolder(folderName) ==
    IF PromptMarkers(folderName) = {} THEN 0
    ELSE LET i == CHOOSE m \in PromptMarkers(folderName) :
                      \A o \in PromptMarkers(folderName) : m <= o
             n == Atoi(SubSeq(folderName, i + 1, DigitRunEnd(folderName, i + 1)))
         IN IF n < 1 THEN 0 ELSE n

(***************************************************************************)
(* Error messages and their classification.                                *)
(***************************************************************************)
NoActivityFragment == <<"no agent activity for">>
StreamErrorFragment == <<"event stream error:">>
NoIdleMessage == <<"agent did not reach idle state">>
ModelNotFoundFragment == <<"Model not found">>
DidYouMeanFragment == <<"Did you mean: ">>
UnknownSessionError == <<"unknown session error">>

\* fmt.Sprintf("no agent activity for %ds", seconds)
TimeoutMessage(seconds) == NoActivityFragment \o <<" ">> \o Decimal(seconds) \o <<"s">>

\* fmt.Sprintf("event stream error: %v", err)
StreamErrorMessage(err) == StreamErrorFragment \o <<" ">> \o err

\* isTransientEvalError, lines 2300-2307 (and without its second fragment)
isTransientEvalErrorNoStream(errMsg) ==
    IF errMsg = <<>> THEN FALSE
    ELSE \/ Contains(errMsg, NoActivityFragment)
         \/ Contains(errMsg, NoIdleMessage)
isTransientEvalError(errMsg) ==
    IF errMsg = <<>> THEN FALSE
    ELSE \/ Contains(errMsg, NoActivityFragment)
         \/ Contains(errMsg, StreamErrorFragment)
         \/ Contains(errMsg, NoIdleMessage)

\* strings.TrimSuffix(s, suffix)
TrimSuffix(s, suffix) ==
    IF Len(s) >= Len(suffix) /\ SubSeq(s, Len(s) - Len(suffix) + 1, Len(s)) = suffix
    THEN SubSeq(s, 1, Len(s) - Len(suffix))
    ELSE s

\* strings.Split(s, sep) for a non-empty separator
RECURSIVE Split(_, _)
Split(s, sep) ==
    LET i == Index(s, sep) IN
    IF i = -1 THEN <<s>>
    ELSE <<SubSeq(s, 1, i)>> \o Split(SubSeq(s, i + Len(sep) + 1, Len(s)), sep)

\* isModelNotFoundError without line 2352, the TrimSuffix
isModelNotFoundErrorKeepMark(errMsg) ==
    IF ~Contains(errMsg, ModelNotFoundFragment) THEN <<FALSE, <<>>>>
    ELSE LET idx == Index(errMsg, DidYouMeanFragment) IN
         IF idx = -1 THEN <<TRUE, <<>>>>
         ELSE LET rest == SubSeq(errMsg, idx + Len(DidYouMeanFragment) + 1, Len(errMsg))
                  parts == Split(rest, <<",", " ">>)
              IN <<TRUE, [k \in 1..Len(parts) |-> TrimSpace(parts[k])]>>
\* isModelNotFoundError, lines 2343-2358: <<is model error, suggestions>>
isModelNotFoundError(errMsg) ==
    IF ~Contains(errMsg, ModelNotFoundFragment) THEN <<FALSE, <<>>>>
    ELSE LET idx == Index(errMsg, DidYouMeanFragment) IN
         IF idx = -1 THEN <<TRUE, <<>>>>
         ELSE LET rest == SubSeq(errMsg, idx + Len(DidYouMeanFragment) + 1, Len(errMsg))
                  parts == Split(TrimSuffix(rest, <<"?">>), <<",", " ">>)
              IN <<TRUE, [k \in 1..Len(parts) |-> TrimSpace(parts[k])]>>

\* the value of properties.error of a session.error event, as decoded from
\* JSON: an object (with the members extractErrorMessage looks at, each a
\* string or not), a string, or another value; text is fmt's %v of the value
StrMember(s) == [isString |-> TRUE, s |-> s]
NoMember == [isString |-> FALSE, s |-> <<>>]

ObjectValue(dataMessage, message, name, text) ==
    [kind |-> "object", dataMessage |-> dataMessage, message |-> message,
     name |-> name, text |-> text]
StringValue(s) ==
    [kind |-> "string", dataMessage |-> NoMember, message |-> NoMember,
     name |-> NoMember, text |-> s]
OtherValue(text) ==
    [kind |-> "other", dataMessage |-> NoMember, message |-> NoMember,
     name |-> NoMember, text |-> text]

\* extractErrorMessage looking at name before message
extractErrorMessageNameFirst(errVal) ==
    IF errVal.kind = "object" /\ errVal.dataMessage.isString THEN errVal.dataMessage.s
    ELSE IF errVal.kind = "object" /\ errVal.name.isString THEN errVal.name.s
    ELSE IF errVal.kind = "object" /\ errVal.message.isString THEN errVal.message.s
    ELSE errVal.text
\* extractErrorMessage, lines 2321-2341
extractErrorMessage(errVal) ==
    IF errVal.kind = "object" /\ errVal.dataMessage.isString THEN errVal.dataMessage.s
    ELSE IF errVal.kind = "object" /\ errVal.message.isString THEN errVal.message.s
    ELSE IF errVal.kind = "object" /\ errVal.name.isString THEN errVal.name.s
    ELSE IF errVal.kind = "string" THEN errVal.text
    ELSE errVal.text

(***************************************************************************)
(* State.                                                                  *)
(***************************************************************************)
VARIABLES
    \* --- the batch (Spec) ---
    mode,               \* "sequential" or "parallel" (runMode)
    tasks,              \* [0..n-1 -> EvalTask]
    model,              \* the model the batch was started with
    transientRetries,   \* package variable transientRetries
    inactivityTimeout,  \* package variable inactivityTimeout: in whole seconds;
                        \* in OptionsSpec the time.Duration itself (an int64)
    sched,              \* the scheduler: pc, loop index i, currentModel
    gor,                \* parallel mode: state of the goroutine of each task
    results,            \* the results slice
    retry,              \* per task: the frame of runAgentWithRetry
    agent,              \* per task: the frame of runAgent
    children,           \* the daemon processes that are alive
    disk,               \* folder path -> its files
    wallClock,          \* time.Now(), in seconds
    hist,               \* history, per task: what the engine has done so far
    \* --- one call of waitForCompletion (TrackerSpec) ---
    trk,                \* the frame of waitForCompletion and its stream
    \* --- one call of a function (ClassifierSpec, ModelIdSpec, ScanSpec,
    \*     PickerSpec) ---
    call                \* the function, its argument and what it returned

vars == <<mode, tasks, model, transientRetries, inactivityTimeout, sched, gor,
          results, retry, agent, children, disk, wallClock, hist, trk, call>>

batchVars == <<mode, tasks, model, transientRetries, sched, gor,
               results, retry, agent, children, disk, wallClock, hist>>

(***************************************************************************)
(* Values.                                                                 *)
(***************************************************************************)
\* an absent file or value is <<>>, a present one <<v>>
None == <<>>
Some(v) == <<v>>

\* the zero value of EvalResult (Duration is left out: no decision reads it)
ZeroResult ==
    [Prompt |-> <<>>, PromptNumber |-> 0, Folder |-> <<>>, Success |-> FALSE, Error |-> <<>>]

\* An int64 of Go is the sequence of its 8 bytes, the lowest first, in
\* two's complement; the arithmetic of the machine is modulo 2^64.

\* the k lowest bytes of the integer n
RECURSIVE ToBytes(_, _)
ToBytes(n, k) == IF k = 0 THEN <<>> ELSE <<n % 256>> \o ToBytes(n \div 256, k - 1)

\* the int64 that holds n
Int64(n) == ToBytes(n, 8)

\* an int64 is negative when its highest bit is set
Negative(a) == a[Len(a)] >= 128

\* a word of k bytes with the value of a (the sign is extended)
Extend(a, k) == [i \in 1..k |-> IF i <= Len(a) THEN a[i] ELSE IF Negative(a) THEN 255 ELSE 0]

\* the sum of the byte products that fall on byte k of a product
Column(a, b, k) ==
    LET RECURSIVE Sum(_)
        Sum(i) == IF i = 0 THEN 0 ELSE a[i] * b[k + 1 - i] + Sum(i - 1)
    IN Sum(k)

\* a * b on words of the same length, the bytes above that length dropped
Mul(a, b) ==
    LET RECURSIVE Bytes(_, _)
        Bytes(k, carry) ==
            IF k > Len(a) THEN <<>>
            ELSE <<(Column(a, b, k) + carry) % 256>>
                    \o Bytes(k + 1, (Column(a, b, k) + carry) \div 256)
    IN Bytes(1, 0)

\* a < b of two int64
Less(a, b) ==
    IF Negative(a) # Negative(b) THEN Negative(a)
    ELSE \E k \in 1..Len(a) : a[k] < b[k] /\ \A j \in (k + 1)..Len(a) : a[j] = b[j]

\* time.Second, in nanoseconds
Second == Int64(1000000000)

\* line 2317: time.Duration(timeoutSeconds) * time.Second
Duration(timeoutSeconds) == Mul(timeoutSeconds, Second)

\* int(d.Seconds()) of a duration d of whole seconds, up to the default
WholeSeconds(d) ==
    CHOOSE sec \in 0..defaultInactivityTimeoutSeconds : Duration(Int64(sec)) = d

\* applyRuntimeOptions(timeoutSeconds, retries): <<inactivityTimeout, transientRetries>>,
\* timeoutSeconds an int64 and inactivityTimeout a time.Duration
applyRuntimeOptions(timeoutSeconds, retries) ==
    << Duration(IF Less(timeoutSeconds, Int64(1))
                THEN Int64(defaultInactivityTimeoutSeconds) ELSE timeoutSeconds),
       IF retries < 0 THEN defaultTransientRetries ELSE retries >>

\* the model ids of the model: the one the batch starts with and the ones
\* the user may pick in the correction prompt
StartModel == <<"x">>
CorrectedModels == {<<"a">>, <<"o", "/", "b">>}

PromptText(k) == <<"prompt ", Decimal(k)[1]>>

\* the tasks runCommand builds: no folder, prompt number idx+1
RunTasks(n) ==
    [k \in 0..(n - 1) |-> [Prompt |-> PromptText(k + 1), PromptNumber |-> k + 1, Folder |-> <<>>]]

\* the folders of an earlier batch that resumeCommand selects
OldFolder(k) ==
    IF k = 0
    THEN <<"e","v","a","l","s","/","o","l","d">>
    ELSE createTimestampFolder(k, k + 1, StartModel, 0)

\* the tasks resumeCommand builds: the folder and prompt of each selected
\* eval, the prompt number scanEvalFolders recovered (0 when it found none)
ResumeTasks(n) ==
    [k \in 0..(n - 1) |->
        [Prompt |-> PromptText(k + 1),
         PromptNumber |-> parsePromptNumberFromFolder(Base(OldFolder(k))),
         Folder |-> OldFolder(k)]]

NumTasks == Cardinality(DOMAIN tasks)
TaskIds == DOMAIN tasks

\* package.json as setupEvalFolder writes it
ReplaceSlash(path) == [k \in 1..Len(path) |-> IF path[k] = "/" THEN "-" ELSE path[k]]
PackageJSON(folderPath) ==
    [name |-> ReplaceSlash(folderPath), type |-> "module", private |-> TRUE]

NoFiles == [prompt |-> None, package |-> None, result |-> None]

\* package.json as the agent of an earlier run left it (here: no longer
\* private)
EditedPackageJSON(folderPath) == [PackageJSON(folderPath) EXCEPT !.private = FALSE]

\* the disk a resume batch starts from: each selected folder with its
\* prompt.txt, the package.json the earlier run left and the result.json
\* of the earlier run
OldDisk(ts) ==
    [f \in {ts[k].Folder : k \in DOMAIN ts} |->
        LET k == CHOOSE j \in DOMAIN ts : ts[j].Folder = f IN
        [prompt |-> Some(ts[k].Prompt),
         package |-> Some(EditedPackageJSON(f)),
         result |-> Some([Prompt |-> ts[k].Prompt, PromptNumber |-> ts[k].PromptNumber,
                          Model |-> StartModel, Success |-> FALSE,
                          Error |-> NoIdleMessage])]]

Exists(d, f) == f \in DOMAIN d

\* os.MkdirAll(folderPath)
MkdirAll(d, f) == IF Exists(d, f) THEN d ELSE [g \in DOMAIN d \cup {f} |-> IF g = f THEN NoFiles ELSE d[g]]

\* os.WriteFile(folderPath/name): fails (and changes nothing) without the folder
WriteFile(d, f, name, content) ==
    IF Exists(d, f) THEN [d EXCEPT ![f][name] = Some(content)] ELSE d

\* setupEvalFolder(folderPath, prompt) with the outcome the file system
\* gives: "ok", or the step that fails ("mkdir", "package", "prompt")
SetupOutcomes == {"ok", "mkdir", "package", "prompt"}
setupEvalFolder(d, folderPath, prompt, outcome) ==
    IF outcome = "mkdir" THEN d
    ELSE LET d1 == MkdirAll(d, folderPath) IN
         IF outcome = "package" THEN d1
         ELSE LET d2 == WriteFile(d1, folderPath, "package", PackageJSON(folderPath)) IN
              IF outcome = "prompt" THEN d2
              ELSE WriteFile(d2, folderPath, "prompt", prompt)

\* the EvalResultFile saveEvalResult builds (duration and completion time
\* are left out)
ResultFile(result, modelStr) ==
    [Prompt |-> result.Prompt, PromptNumber |-> result.PromptNumber, Model |-> modelStr,
     Success |-> result.Success, Error |-> result.Error]

saveEvalResult(d, folderPath, result, modelStr) ==
    WriteFile(d, folderPath, "result", ResultFile(result, modelStr))

\* errors of the operating system and of the daemon, as fmt's %v prints them
IOError == <<"permission denied">>
ExecError == <<"exec: ", "opencode", ": executable file not found in $PATH">>
ConnError == <<"connection refused">>
ScanError == <<"bufio.Scanner: token too long">>

\* a response to an HTTP request of the engine: err is the error of the
\* transport (<<>>: none), status and body are the daemon's answer, id and
\* dataId the members "id" and "data.id" of a JSON body (<<>>: "" or absent)
Response(err, status, body, id, dataId) ==
    [err |-> err, status |-> status, body |-> body, id |-> id, dataId |-> dataId]

\* io.LimitReader(r, n) read to its end
LimitReader(body, n) == SubSeq(body, 1, IF Len(body) > n THEN n ELSE Len(body))

\* line 2143: the number of bytes sendPrompt reads of an error body
promptErrorBodyLimit == 1024

\* fmt.Errorf("HTTP %d: %s", resp.StatusCode, strings.TrimSpace(string(respBody)))
HTTPError(status, respBody) ==
    <<"HTTP ">> \o Decimal(status) \o <<": ">> \o TrimSpace(respBody)

\* createSession returning the session of the direct format whatever its id
createSessionAnyId(resp) ==
    IF resp.err # <<>> THEN <<None, resp.err>>
    ELSE IF resp.status < 200 \/ resp.status >= 300
    THEN <<None, HTTPError(resp.status, LimitReader(resp.body, 8192))>>
    ELSE <<Some(resp.id), <<>>>>
\* createSession, lines 2084-2122: <<session, error>>, the session None or
\* Some(id) with a non-empty id, the error <<>> when there is none
createSession(resp) ==
    IF resp.err # <<>> THEN <<None, resp.err>>
    ELSE IF resp.status < 200 \/ resp.status >= 300
    THEN <<None, HTTPError(resp.status, LimitReader(resp.body, 8192))>>
    ELSE IF resp.id # <<>> THEN <<Some(resp.id), <<>>>>
    ELSE IF resp.dataId # <<>> THEN <<Some(resp.dataId), <<>>>>
    ELSE <<None, <<"empty session ID in response: ">> \o LimitReader(resp.body, 8192)>>

\* sendPrompt, lines 2124-2148: the error, <<>> when there is none
sendPrompt(resp) ==
    IF resp.err # <<>> THEN resp.err
    ELSE IF resp.status < 200 \/ resp.status >= 300
    THEN HTTPError(resp.status, LimitReader(resp.body, promptErrorBodyLimit))
    ELSE <<>>

\* what the daemon answers to POST /session when the polling of lines
\* 2032-2039 ends: nothing listens, a session in either format, or a
\* body without a session id
SessionResponses ==
    { Response(ConnError, 0, <<>>, <<>>, <<>>),
      Response(<<>>, 200, <<"{...}">>, <<"ses_1">>, <<>>),
      Response(<<>>, 200, <<"{...}">>, <<>>, <<"ses_1">>),
      Response(<<>>, 200, <<"{}">>, <<>>, <<>>) }

\* a body longer than what sendPrompt reads of it
LongBody == [k \in 1..(promptErrorBodyLimit + 2) |-> "x"]

\* what the daemon answers to POST /session/<id>/prompt_async; the long
\* body is explored in the batches of one task
PromptResponses ==
    { Response(<<>>, 204, <<>>, <<>>, <<>>),
      Response(<<>>, 401, <<" ", "Unauthorized", "\n">>, <<>>, <<>>) }
    \cup (IF NumTasks = 1 THEN {Response(<<>>, 502, <<" ">> \o LongBody, <<>>, <<>>)} ELSE {})

\* a session.error message of the daemon for an unknown model
ModelNotFoundMessage ==
    ModelNotFoundFragment \o <<": ", "x", ". ">> \o DidYouMeanFragment
        \o <<"a", ",", " ", "o", "/", "b", "?">>

\* the verdicts (completed, errMsg) a call of waitForCompletion returns
Verdict(c, e) == [completed |-> c, errMsg |-> e]
Verdicts ==
    {Verdict(TRUE, <<>>)} \cup
    {Verdict(FALSE, e) : e \in {<<>>, TimeoutMessage(inactivityTimeout),
                                StreamErrorMessage(ScanError), <<"boom">>,
                                ModelNotFoundMessage}}

\* runAgent, lines 2073-2078: the result composed from the verdict
\* lines 2073-2078 without the branch for a run that did not complete
ComposeResultErrorOnly(result, completed, errMsg) ==
    [result EXCEPT !.Success = completed /\ errMsg = <<>>, !.Error = errMsg]
ComposeResultPlain(result, completed, errMsg) ==
    [result EXCEPT !.Success = completed, !.Error = errMsg]
ComposeResult(result, completed, errMsg) ==
    [result EXCEPT
        !.Success = completed /\ errMsg = <<>>,
        !.Error = IF errMsg # <<>> THEN errMsg
                  ELSE IF ~completed THEN NoIdleMessage
                  ELSE result.Error]

\* runAgentWithRetry, lines 1960-1963
MaxAttemptsOneMore(retries) == retries + 2
MaxAttempts(retries) == IF retries + 1 < 1 THEN 1 ELSE retries + 1

\* runAgentWithRetry, line 1976: the loop returns after this attempt
ReturnsAfterUnclassified(result, attempt, maxAttempts) ==
    result.Success \/ attempt = maxAttempts
ReturnsAfter(result, attempt, maxAttempts) ==
    result.Success \/ ~isTransientEvalError(result.Error) \/ attempt = maxAttempts

(***************************************************************************)
(* Frames.                                                                 *)
(***************************************************************************)
IdleRetry ==
    [pc |-> "idle", attempt |-> 0, maxAttempts |-> 0, folder |-> <<>>,
     modelStr |-> <<>>, result |-> ZeroResult]

IdleAgent ==
    [pc |-> "idle", existingFolder |-> <<>>, folderPath |-> <<>>, modelStr |-> <<>>,
     port |-> 0, session |-> <<>>, subscribed |-> FALSE, result |-> ZeroResult]

\* history of a task.  Over the batch: runs, the number of runAgent calls;
\* created, the folders created for the task; prompts, the number of
\* correction prompts shown for it; corrected, the model the user gave at
\* this task (<<>>: none) and runsAtCorrection, the runs made before that.
\* Of the current runAgentWithRetry call: callRuns, callFolders (the folders
\* its attempts ran in), callCreated (the folders they created); named, the
\* paths createTimestampFolder made for the task.  Of the
\* current or last attempt: trace (its steps), lastModel, lastFolder,
\* lastVerdict (what waitForCompletion returned to it, if it was called),
\* lastResult (what it returned), postedTo (the session id in the URL of
\* its prompt post, <<>> when it posted none) and postAnswer (the daemon's
\* answer to that post)
NoHistory ==
    [runs |-> 0, created |-> {}, named |-> {}, prompts |-> 0, corrected |-> <<>>, runsAtCorrection |-> 0,
     callRuns |-> 0, callFolders |-> {}, callCreated |-> 0,
     trace |-> <<>>, lastModel |-> <<>>, lastFolder |-> <<>>, lastVerdict |-> None,
     lastResult |-> ZeroResult, postedTo |-> <<>>, postAnswer |-> None]

\* the state of the tracker while a batch runs (it is modelled by TrackerSpec)
NoTracker == [pc |-> "off"]

\* no function of the Error Classifier is under study
NoCall == [fn |-> "none"]

\* the history of a task when a call of runAgentWithRetry begins
NewCall(h) == [h EXCEPT !.callRuns = 0, !.callFolders = {}, !.callCreated = 0]

\* the call runAgentWithRetry(task.Prompt, task.PromptNumber, i, modelStr, task.Folder)
CallRetry(i, modelStr) ==
    [pc |-> "loop", attempt |-> 1, maxAttempts |-> MaxAttempts(transientRetries),
     folder |-> tasks[i].Folder, modelStr |-> modelStr, result |-> ZeroResult]

(***************************************************************************)
(* Init of a batch: runCommand or resumeCommand up to the call of          *)
(* runAllEvalsParallel / runAllEvalsSequential.                            *)
(***************************************************************************)
Init ==
    /\ mode \in {"sequential", "parallel"}
    /\ \E n \in 1..MaxTasks : tasks \in {RunTasks(n), ResumeTasks(n)}
    /\ model = StartModel
    /\ \E r \in (-1)..MaxRetries :
          /\ transientRetries = applyRuntimeOptions(Int64(MaxTimeout), r)[2]
          /\ inactivityTimeout = WholeSeconds(applyRuntimeOptions(Int64(MaxTimeout), r)[1])
    /\ sched = [pc |-> IF mode = "sequential" THEN "call" ELSE "par", i |-> 0,
                currentModel |-> model]
    /\ gor = [i \in DOMAIN tasks |-> "ready"]
    /\ results = [i \in DOMAIN tasks |-> ZeroResult]
    /\ retry = [i \in DOMAIN tasks |-> IdleRetry]
    /\ agent = [i \in DOMAIN tasks |-> IdleAgent]
    /\ children = {}
    /\ disk = IF tasks[0].Folder = <<>> THEN <<>> ELSE OldDisk(tasks)
    /\ wallClock = 0
    /\ hist = [i \in DOMAIN tasks |-> NoHistory]
    /\ trk = NoTracker
    /\ call = NoCall

(***************************************************************************)
(* runAgentWithRetry and runAgent.                                         *)
(***************************************************************************)
\* runAgentWithRetry, line 1974: folder = result.Folder
FolderKept(folder, result) == folder
FolderAfter(folder, result) == result.Folder

\* a return of runAgent with result res from frame a, and what
\* runAgentWithRetry does with it (lines 1974-1978): saveEvalResult on disk
\* d, then either the next attempt in res.Folder or the return of res
Return(i, a, res, d, h, step) ==
    /\ disk' = saveEvalResult(d, a.folderPath, res, a.modelStr)
    /\ agent' = [agent EXCEPT ![i] = IdleAgent]
    /\ retry' = [retry EXCEPT ![i] =
            IF ReturnsAfter(res, retry[i].attempt, retry[i].maxAttempts)
            THEN [@ EXCEPT !.pc = "returned", !.folder = FolderAfter(retry[i].folder, res),
                           !.result = res]
            ELSE [@ EXCEPT !.pc = "loop", !.folder = FolderAfter(retry[i].folder, res),
                           !.result = res, !.attempt = @ + 1]]
    /\ hist' = [hist EXCEPT ![i] = [h EXCEPT !.trace = Append(Append(@, step), "return"),
                                             !.lastResult = res]]

\* line 2024, defer cmd.Process.Kill(): the child of task i is killed
KillChildSkipped(i) == children
KillChild(i) == {c \in children : c.task # i}

\* a return of runAgent after the child was started
Finish(i, res, step) ==
    /\ Return(i, agent[i], res, disk, hist[i], step)
    /\ children' = KillChild(i)

\* runAgent setting up every folder, the existing ones included
NeedsSetupAlways(existingFolder) == TRUE
\* runAgent, line 2004: only a folder runAgent made itself is set up
NeedsSetup(existingFolder) == existingFolder = <<>>

\* runAgent, lines 1985-2011: the call from the retry loop (line 1973),
\* the folder is resolved and, when new, set up
RunAgentBegin(i) ==
    /\ retry[i].pc = "loop"
    /\ \E sec \in wallClock..MaxClock, outcome \in SetupOutcomes :
        LET existingFolder == retry[i].folder
            modelStr == retry[i].modelStr
            folderPath == IF existingFolder = <<>>
                          THEN createTimestampFolder(i, tasks[i].PromptNumber, modelStr, sec)
                          ELSE existingFolder
            promptNumber == IF existingFolder # <<>> /\ tasks[i].PromptNumber < 1
                            THEN parsePromptNumberFromFolder(Base(folderPath))
                            ELSE tasks[i].PromptNumber
            result == [Prompt |-> tasks[i].Prompt, PromptNumber |-> promptNumber,
                       Folder |-> folderPath, Success |-> FALSE, Error |-> <<>>]
            a == [IdleAgent EXCEPT !.existingFolder = existingFolder,
                                   !.folderPath = folderPath, !.modelStr = modelStr,
                                   !.result = result]
            h == [hist[i] EXCEPT
                    !.runs = @ + 1,
                    !.trace = <<>>,
                    !.lastModel = modelStr,
                    !.lastFolder = folderPath,
                    !.lastResult = ZeroResult,
                    !.lastVerdict = None,
                    !.postedTo = <<>>,
                    !.postAnswer = None,
                    !.callRuns = @ + 1,
                    !.callFolders = @ \cup {folderPath},
                    !.callCreated = @ + (IF existingFolder = <<>> THEN 1 ELSE 0),
                    !.created = IF existingFolder = <<>> /\ outcome # "mkdir"
                                THEN @ \cup {folderPath} ELSE @,
                    !.named = IF existingFolder = <<>> THEN @ \cup {folderPath} ELSE @]
        IN
        /\ wallClock' = sec
        /\ UNCHANGED <<children>>
        /\ existingFolder # <<>> => sec = wallClock
        /\ IF ~NeedsSetup(existingFolder)
           THEN /\ outcome = "ok"
                /\ agent' = [agent EXCEPT ![i] = [a EXCEPT !.pc = "start"]]
                /\ retry' = [retry EXCEPT ![i].pc = "running"]
                /\ hist' = [hist EXCEPT ![i] = h]
                /\ UNCHANGED disk
           ELSE IF outcome = "ok"
           THEN /\ disk' = setupEvalFolder(disk, folderPath, tasks[i].Prompt, outcome)
                /\ agent' = [agent EXCEPT ![i] = [a EXCEPT !.pc = "start"]]
                /\ retry' = [retry EXCEPT ![i].pc = "running"]
                /\ hist' = [hist EXCEPT ![i] = h]
           ELSE Return(i, a,
                    [result EXCEPT !.Error = <<"Failed to setup folder: ">> \o IOError],
                    setupEvalFolder(disk, folderPath, tasks[i].Prompt, outcome), h,
                    "setup failed")
    /\ UNCHANGED <<mode, tasks, model, transientRetries, inactivityTimeout, sched, gor,
                   results, trk, call>>

\* line 2013 with every task on the base port
PortShared(index) == basePort
\* line 2013: port := basePort + index
Port(index) == basePort + index

\* runAgent, lines 2013-2024: the daemon is started on basePort + index
StartDaemon(i) ==
    /\ agent[i].pc = "start"
    /\ \E ok \in BOOLEAN :
        IF ok
        THEN /\ agent' = [agent EXCEPT ![i].pc = "session", ![i].port = Port(i)]
             /\ children' = children \cup {[task |-> i, port |-> Port(i),
                                            run |-> hist[i].runs]}
             /\ hist' = [hist EXCEPT ![i].trace = Append(@, "start")]
             /\ UNCHANGED <<retry, disk>>
        ELSE /\ Return(i, agent[i],
                    [agent[i].result EXCEPT !.Error = <<"Failed to start opencode: ">> \o ExecError],
                    disk, hist[i], "start failed")
             /\ UNCHANGED children
    /\ UNCHANGED <<mode, tasks, model, transientRetries, inactivityTimeout, sched, gor,
                   results, wallClock, trk, call>>

\* runAgent, lines 2029-2047: session creation is polled for 15 s; a session
\* with a non-empty id is adopted, or the attempt ends
CreateSession(i) ==
    /\ agent[i].pc = "session"
    /\ \E resp \in SessionResponses :
        LET session == createSession(resp)[1]
            sessionErr == createSession(resp)[2]
        IN
        IF session # None
        THEN /\ agent' = [agent EXCEPT ![i].pc = "subscribe", ![i].session = session[1]]
             /\ hist' = [hist EXCEPT ![i].trace = Append(@, "session")]
             /\ UNCHANGED <<retry, disk, children>>
        ELSE Finish(i, [agent[i].result EXCEPT
                            !.Error = <<"Server not ready after 15s: ">> \o sessionErr],
                    "not ready")
    /\ UNCHANGED <<mode, tasks, model, transientRetries, inactivityTimeout, sched, gor,
                   results, wallClock, trk, call>>

\* Subscribe with the error of http.Get ignored
SubscribeUnchecked(i) ==
    /\ agent[i].pc = "subscribe"
    /\ \E ok \in BOOLEAN :
        /\ agent' = [agent EXCEPT ![i].pc = "prompt", ![i].subscribed = ok]
        /\ hist' = [hist EXCEPT ![i].trace = Append(@, IF ok THEN "subscribe"
                                                         ELSE "subscribe failed")]
        /\ UNCHANGED <<retry, disk, children>>
    /\ UNCHANGED <<mode, tasks, model, transientRetries, inactivityTimeout, sched, gor,
                   results, wallClock, trk, call>>

\* runAgent, lines 2049-2057: GET /event
Subscribe(i) ==
    /\ agent[i].pc = "subscribe"
    /\ \E ok \in BOOLEAN :
        IF ok
        THEN /\ agent' = [agent EXCEPT ![i].pc = "prompt", ![i].subscribed = TRUE]
             /\ hist' = [hist EXCEPT ![i].trace = Append(@, "subscribe")]
             /\ UNCHANGED <<retry, disk, children>>
        ELSE Finish(i, [agent[i].result EXCEPT
                            !.Error = <<"Failed to subscribe to events: ">> \o ConnError],
                    "subscribe failed")
    /\ UNCHANGED <<mode, tasks, model, transientRetries, inactivityTimeout, sched, gor,
                   results, wallClock, trk, call>>

\* runAgent, lines 2059-2066: POST /session/<id>/prompt_async
SendPrompt(i) ==
    /\ agent[i].pc = "prompt"
    /\ \E resp \in PromptResponses :
        LET err == sendPrompt(resp)
            h == [hist[i] EXCEPT !.postedTo = agent[i].session, !.postAnswer = Some(resp)]
        IN
        IF err = <<>>
        THEN /\ agent' = [agent EXCEPT ![i].pc = "wait"]
             /\ hist' = [hist EXCEPT ![i] = [h EXCEPT !.trace = Append(@, "post")]]
             /\ UNCHANGED <<retry, disk, children>>
        ELSE /\ Return(i, agent[i],
                    [agent[i].result EXCEPT !.Error = <<"Failed to send prompt: ">> \o err],
                    disk, h, "post failed")
             /\ children' = KillChild(i)
    /\ UNCHANGED <<mode, tasks, model, transientRetries, inactivityTimeout, sched, gor,
                   results, wallClock, trk, call>>

\* runAgent, lines 2068-2081: the tracker's verdict, the result composed
\* from it, saved and returned
WaitForCompletion(i) ==
    /\ agent[i].pc = "wait"
    /\ \E v \in Verdicts :
        /\ Return(i, agent[i], ComposeResult(agent[i].result, v.completed, v.errMsg), disk,
                  [hist[i] EXCEPT !.lastVerdict = Some(v)], "verdict")
        /\ children' = KillChild(i)
    /\ UNCHANGED <<mode, tasks, model, transientRetries, inactivityTimeout, sched, gor,
                   results, wallClock, trk, call>>

(***************************************************************************)
(* runAllEvalsSequential.                                                  *)
(***************************************************************************)
\* what promptModelCorrection returns: <<corrected, correctionAborted>>.  The
\* user aborts a form, picks an option or types a model id (trimmed)
CorrectionAnswers ==
    {<<<<>>, TRUE>>} \cup {<<TrimSpace(m), FALSE>> : m \in CorrectedModels \cup {<<" ">>}}

\* the loop starting over at the first task
NextTaskFromStart(i) ==
    [sched EXCEPT !.i = 0, !.pc = "call"]
\* the loop moves on to task i+1, or returns the results after the last one
NextTask(i) ==
    [sched EXCEPT !.i = i + 1, !.pc = IF i + 1 < NumTasks THEN "call" ELSE "done"]

\* line 1938: the model argument of the call is currentModel
SeqModelOriginal == model
SeqModel == sched.currentModel

\* line 1938: runAgentWithRetry is called for task i with currentModel
SeqCall ==
    /\ mode = "sequential" /\ sched.pc = "call"
    /\ retry' = [retry EXCEPT ![sched.i] = CallRetry(sched.i, SeqModel)]
    /\ sched' = [sched EXCEPT !.pc = "first"]
    /\ hist' = [hist EXCEPT ![sched.i] = NewCall(@)]
    /\ UNCHANGED <<mode, tasks, model, transientRetries, inactivityTimeout, gor, results,
                   agent, children, disk, wallClock, trk, call>>

\* lines 1938-1943: the result is stored; it is no model-not-found failure
SeqNext ==
    /\ mode = "sequential" /\ sched.pc = "first"
    /\ retry[sched.i].pc = "returned"
    /\ LET r == retry[sched.i].result IN
        /\ r.Success \/ ~isModelNotFoundError(r.Error)[1]
        /\ results' = [results EXCEPT ![sched.i] = r]
    /\ retry' = [retry EXCEPT ![sched.i] = IdleRetry]
    /\ sched' = NextTask(sched.i)
    /\ UNCHANGED <<mode, tasks, model, transientRetries, inactivityTimeout, gor,
                   agent, children, disk, wallClock, hist, trk, call>>

\* SeqAbort with the loop going on to the next task instead of returning
SeqAbortContinues ==
    /\ mode = "sequential" /\ sched.pc = "first"
    /\ retry[sched.i].pc = "returned"
    /\ LET r == retry[sched.i].result IN
        /\ ~r.Success /\ isModelNotFoundError(r.Error)[1]
        /\ results' = [results EXCEPT ![sched.i] = r]
    /\ \E ans \in CorrectionAnswers : ans[2] \/ ans[1] = <<>>
    /\ retry' = [retry EXCEPT ![sched.i] = IdleRetry]
    /\ sched' = NextTask(sched.i)
    /\ hist' = [hist EXCEPT ![sched.i].prompts = @ + 1]
    /\ UNCHANGED <<mode, tasks, model, transientRetries, inactivityTimeout, gor,
                   agent, children, disk, wallClock, trk, call>>

\* lines 1938-1949: model not found, and the user gives no model
SeqAbort ==
    /\ mode = "sequential" /\ sched.pc = "first"
    /\ retry[sched.i].pc = "returned"
    /\ LET r == retry[sched.i].result IN
        /\ ~r.Success /\ isModelNotFoundError(r.Error)[1]
        /\ results' = [results EXCEPT ![sched.i] = r]
    /\ \E ans \in CorrectionAnswers : ans[2] \/ ans[1] = <<>>
    /\ retry' = [retry EXCEPT ![sched.i] = IdleRetry]
    /\ sched' = [sched EXCEPT !.pc = "done"]
    /\ hist' = [hist EXCEPT ![sched.i].prompts = @ + 1]
    /\ UNCHANGED <<mode, tasks, model, transientRetries, inactivityTimeout, gor,
                   agent, children, disk, wallClock, trk, call>>

\* lines 1938-1952: model not found, the user gives a model, and
\* runAgentWithRetry is called again for task i
SeqCorrect ==
    /\ mode = "sequential" /\ sched.pc = "first"
    /\ retry[sched.i].pc = "returned"
    /\ LET r == retry[sched.i].result IN
        /\ ~r.Success /\ isModelNotFoundError(r.Error)[1]
        /\ results' = [results EXCEPT ![sched.i] = r]
    /\ \E ans \in CorrectionAnswers :
        /\ ~(ans[2] \/ ans[1] = <<>>)
        /\ sched' = [sched EXCEPT !.currentModel = ans[1], !.pc = "second"]
        /\ retry' = [retry EXCEPT ![sched.i] = CallRetry(sched.i, ans[1])]
        /\ hist' = [hist EXCEPT ![sched.i] =
                        [NewCall(@) EXCEPT !.prompts = @ + 1, !.corrected = ans[1],
                                           !.runsAtCorrection = hist[sched.i].runs]]
    /\ UNCHANGED <<mode, tasks, model, transientRetries, inactivityTimeout, gor,
                   agent, children, disk, wallClock, trk, call>>

\* the result of the re-run examined like the result of the first call
SeqRerunChecked ==
    /\ mode = "sequential" /\ sched.pc = "second"
    /\ retry[sched.i].pc = "returned"
    /\ sched' = [sched EXCEPT !.pc = "first"]
    /\ UNCHANGED <<mode, tasks, model, transientRetries, inactivityTimeout, gor, results,
                   retry, agent, children, disk, wallClock, hist, trk, call>>
\* line 1952: the result of the re-run is stored
SeqRerunDone ==
    /\ mode = "sequential" /\ sched.pc = "second"
    /\ retry[sched.i].pc = "returned"
    /\ results' = [results EXCEPT ![sched.i] = retry[sched.i].result]
    /\ retry' = [retry EXCEPT ![sched.i] = IdleRetry]
    /\ sched' = NextTask(sched.i)
    /\ UNCHANGED <<mode, tasks, model, transientRetries, inactivityTimeout, gor,
                   agent, children, disk, wallClock, hist, trk, call>>

(***************************************************************************)
(* runAllEvalsParallel.                                                    *)
(***************************************************************************)
\* ParCall with a model other than the batch's
ParCallOtherModel(i) ==
    /\ mode = "parallel" /\ sched.pc = "par"
    /\ gor[i] = "ready"
    /\ gor' = [gor EXCEPT ![i] = "running"]
    /\ retry' = [retry EXCEPT ![i] = CallRetry(i, <<"a">>)]
    /\ hist' = [hist EXCEPT ![i] = NewCall(@)]
    /\ UNCHANGED <<mode, tasks, model, transientRetries, inactivityTimeout, sched, results,
                   agent, children, disk, wallClock, trk, call>>

\* line 1922: the goroutine of task i calls runAgentWithRetry with model
ParCall(i) ==
    /\ mode = "parallel" /\ sched.pc = "par"
    /\ gor[i] = "ready"
    /\ gor' = [gor EXCEPT ![i] = "running"]
    /\ retry' = [retry EXCEPT ![i] = CallRetry(i, model)]
    /\ hist' = [hist EXCEPT ![i] = NewCall(@)]
    /\ UNCHANGED <<mode, tasks, model, transientRetries, inactivityTimeout, sched, results,
                   agent, children, disk, wallClock, trk, call>>

\* resultMutex is held by the goroutine that is between Lock and Unlock
MutexHeld == \E j \in TaskIds : gor[j] = "locked"

\* line 1923: resultMutex.Lock() of the goroutine of task i, after its call
\* of runAgentWithRetry has returned; it blocks while the mutex is held
ParLock(i) ==
    /\ mode = "parallel" /\ sched.pc = "par"
    /\ gor[i] = "running" /\ retry[i].pc = "returned"
    /\ ~MutexHeld
    /\ gor' = [gor EXCEPT ![i] = "locked"]
    /\ UNCHANGED <<mode, tasks, model, transientRetries, inactivityTimeout, sched, results,
                   retry, agent, children, disk, wallClock, hist, trk, call>>

\* lines 1924-1925 and the deferred wg.Done(): the result is stored in
\* slot i, the mutex is released and the goroutine ends
ParStore(i) ==
    /\ mode = "parallel" /\ sched.pc = "par"
    /\ gor[i] = "locked"
    /\ results' = [results EXCEPT ![i] = retry[i].result]
    /\ retry' = [retry EXCEPT ![i] = IdleRetry]
    /\ gor' = [gor EXCEPT ![i] = "done"]
    /\ UNCHANGED <<mode, tasks, model, transientRetries, inactivityTimeout, sched,
                   agent, children, disk, wallClock, hist, trk, call>>

\* ParReturn without wg.Wait()
ParReturnNoWait ==
    /\ mode = "parallel" /\ sched.pc = "par"
    /\ sched' = [sched EXCEPT !.pc = "done"]
    /\ UNCHANGED <<mode, tasks, model, transientRetries, inactivityTimeout, gor, results,
                   retry, agent, children, disk, wallClock, hist, trk, call>>

\* lines 1929-1930: wg.Wait() returns and the results are returned
ParReturn ==
    /\ mode = "parallel" /\ sched.pc = "par"
    /\ \A i \in TaskIds : gor[i] = "done"
    /\ sched' = [sched EXCEPT !.pc = "done"]
    /\ UNCHANGED <<mode, tasks, model, transientRetries, inactivityTimeout, gor, results,
                   retry, agent, children, disk, wallClock, hist, trk, call>>

Next ==
    \/ SeqCall
    \/ SeqNext
    \/ SeqAbort
    \/ SeqCorrect
    \/ SeqRerunDone
    \/ ParReturn
    \/ \E i \in TaskIds : ParCall(i)
    \/ \E i \in TaskIds : ParLock(i)
    \/ \E i \in TaskIds : ParStore(i)
    \/ \E i \in TaskIds : RunAgentBegin(i)
    \/ \E i \in TaskIds : StartDaemon(i)
    \/ \E i \in TaskIds : CreateSession(i)
    \/ \E i \in TaskIds : Subscribe(i)
    \/ \E i \in TaskIds : SendPrompt(i)
    \/ \E i \in TaskIds : WaitForCompletion(i)

Spec == Init /\ [][Next]_vars

(***************************************************************************)
(* waitForCompletion: the stream reader (the calling goroutine) and the    *)
(* timeout watcher.  Every access to completed, errorMsg and lastActivity  *)
(* is made under stateMu, so each locked section is one step; the steps of *)
(* a goroutine between two synchronisations (stateMu, done, the ticker,    *)
(* the stream) are joined to the synchronisation that follows them.        *)
(***************************************************************************)
OwnSession == <<"ses_1">>
OtherSession == <<"ses_2">>

ServerPrefix == <<"server.">>
Heartbeat == <<"server.", "heartbeat">>
SessionIdle == <<"session.", "idle">>
SessionStatus == <<"session.", "status">>
SessionError == <<"session.", "error">>
MessageUpdated == <<"message.", "updated">>
MessagePartUpdated == <<"message.", "part.updated">>
FileEdited == <<"file.", "edited">>

\* strings.HasPrefix(s, prefix)
HasPrefix(s, prefix) == Len(s) >= Len(prefix) /\ SubSeq(s, 1, Len(prefix)) = prefix

\* the values of properties.error the daemon sends in the model
ErrorValues ==
    { ObjectValue(StrMember(<<"boom">>), StrMember(<<"outer">>), StrMember(<<"APIError">>),
                  <<"map[...]">>),
      ObjectValue(NoMember, StrMember(<<>>), StrMember(<<"APIError">>), <<"map[...]">>),
      ObjectValue(NoMember, NoMember, StrMember(<<"UnknownError">>), <<"map[...]">>),
      ObjectValue(NoMember, NoMember, NoMember, <<"map[code:1]">>),
      ObjectValue(StrMember(ModelNotFoundMessage), NoMember, NoMember, <<"map[...]">>),
      StringValue(<<"upstream said: ">> \o NoIdleMessage),
      OtherValue(<<"4", "2">>) }

\* a line of the stream, by what the reader finds in it: a blank line, a
\* line without the "data: " prefix, a data line that is no JSON, or an
\* event with its type, properties.sessionID (a string, or None),
\* properties.status.type (a string, or None) and properties.error (None
\* when the key is absent)
BlankLine == [kind |-> "blank", type |-> <<>>, sid |-> None, status |-> None, error |-> None]
TextLine == [kind |-> "text", type |-> <<>>, sid |-> None, status |-> None, error |-> None]
BadDataLine == [kind |-> "baddata", type |-> <<>>, sid |-> None, status |-> None, error |-> None]
Event(type, sid, status, error) ==
    [kind |-> "event", type |-> type, sid |-> sid, status |-> status, error |-> error]

Lines ==
    {BlankLine, TextLine, BadDataLine}
    \cup {Event(Heartbeat, None, None, None)}
    \cup {Event(SessionIdle, sid, None, None) :
            sid \in {None, Some(OwnSession), Some(OtherSession)}}
    \cup {Event(SessionStatus, Some(OwnSession), st, None) :
            st \in {None, Some("idle"), Some("busy"), Some("retry")}}
    \cup {Event(SessionStatus, Some(OtherSession), Some("idle"), None)}
    \cup {Event(SessionError, Some(OwnSession), None, e) :
            e \in {None} \cup {Some(v) : v \in ErrorValues}}
    \cup {Event(SessionError, sid, None, Some(StringValue(<<"plain">>))) :
            sid \in {None, Some(OtherSession)}}
    \cup {Event(t, Some(OwnSession), None, None) :
            t \in {MessageUpdated, MessagePartUpdated, FileEdited}}

EndOfStream == [kind |-> "eof"]
ReadError == [kind |-> "err"]

\* strings.TrimSpace(line) != ""
NonBlank(line) == line.kind # "blank"

\* an event of another session: properties.sessionID is a string other
\* than the adopted session id
ForeignEvent(line, sessionID) ==
    line.kind = "event" /\ line.sid # None /\ line.sid # Some(sessionID)

\* Dispatch without the sessionID filter of lines 2220-2225
DispatchUnfiltered(line, sessionID) ==
    IF line.kind # "event" THEN "continue"
    ELSE IF HasPrefix(line.type, ServerPrefix) THEN "continue"
    ELSE IF line.type = SessionIdle THEN "idle"
    ELSE IF line.type = SessionStatus
         THEN IF line.status = Some("idle") THEN "idle" ELSE "continue"
    ELSE IF line.type = SessionError THEN "error"
    ELSE "continue"

\* lines 2204-2280: what the reader does with a line: "idle" (terminal
\* success), "error" (session.error) or "continue" (the next Scan)
Dispatch(line, sessionID) ==
    IF line.kind # "event" THEN "continue"
    ELSE IF HasPrefix(line.type, ServerPrefix) THEN "continue"
    ELSE IF line.sid # None /\ line.sid[1] # sessionID THEN "continue"
    ELSE IF line.type = SessionIdle THEN "idle"
    ELSE IF line.type = SessionStatus
         THEN IF line.status = Some("idle") THEN "idle" ELSE "continue"
    ELSE IF line.type = SessionError THEN "error"
    ELSE "continue"

\* lines 2263-2267: the message of a session.error event
SessionErrorMessage(line) ==
    IF line.error # None THEN extractErrorMessage(line.error[1]) ELSE UnknownSessionError

\* lines 2156-2158: closeDone(), close(done) under closeOnce
closeDoneUnguarded(t) == [t EXCEPT !.doneClosed = TRUE, !.closes = @ + 1]
closeDone(t) ==
    IF t.once THEN t
    ELSE [t EXCEPT !.once = TRUE, !.doneClosed = TRUE, !.closes = @ + 1]

\* lines 2150-2184: the call, up to the first Scan and the watcher's select.
\* handled, idled, skipped, lastOther and fired are history: the message of
\* the session.error event the reader handled, whether the reader handled
\* an idle event, whether it skipped a session.idle or session.error event
\* of another session, the time of the last non-blank line that was no server.* event,
\* whether the watcher set the timeout, and the errorMsg the reader found
\* recorded when the loop had ended (line 2286)
TrackerStart ==
    [pc |-> "scan", wpc |-> "select", sessionID |-> OwnSession,
     now |-> 0, lastActivity |-> 0, completed |-> FALSE, errorMsg |-> <<>>,
     once |-> FALSE, doneClosed |-> FALSE, closes |-> 0,
     tick |-> FALSE, stream |-> "open", pending |-> None, delivered |-> 0,
     line |-> BlankLine, scanErr |-> FALSE,
     inactiveFor |-> 0, alreadyFailed |-> FALSE,
     verdict |-> Verdict(FALSE, <<>>),
     handled |-> None, idled |-> FALSE, skipped |-> FALSE,
     lastOther |-> 0, fired |-> FALSE, foundAtEnd |-> None]

TrackerInit ==
    /\ mode = "sequential"
    /\ tasks = RunTasks(1)
    /\ model = StartModel
    /\ transientRetries = defaultTransientRetries
    /\ inactivityTimeout \in 1..MaxTimeout
    /\ sched = [pc |-> "first", i |-> 0, currentModel |-> model]
    /\ gor = [i \in DOMAIN tasks |-> "ready"]
    /\ results = [i \in DOMAIN tasks |-> ZeroResult]
    /\ retry = [i \in DOMAIN tasks |-> IdleRetry]
    /\ agent = [i \in DOMAIN tasks |-> IdleAgent]
    /\ children = {}
    /\ disk = <<>>
    /\ wallClock = 0
    /\ hist = [i \in DOMAIN tasks |-> NoHistory]
    /\ trk = TrackerStart
    /\ call = NoCall

Running == trk.pc # "returned" \/ trk.wpc # "exited"

\* a second passes; the ticker (line 2161) has a tick ready, unless the
\* watcher has exited and stopped it (line 2162)
ClockTick ==
    /\ Running /\ trk.now < MaxTime
    /\ trk' = [trk EXCEPT !.now = @ + 1, !.tick = (trk.wpc # "exited")]
    /\ UNCHANGED <<batchVars, inactivityTimeout, call>>

\* the daemon writes a line to the stream
Deliver ==
    /\ trk.pc # "returned" /\ trk.stream = "open" /\ trk.pending = None
    /\ trk.delivered < MaxLines
    /\ \E l \in Lines : trk' = [trk EXCEPT !.pending = Some(l), !.delivered = @ + 1]
    /\ UNCHANGED <<batchVars, inactivityTimeout, call>>

\* the stream ends (EOF) or breaks (a read error, a line over the limit)
StreamEnds ==
    /\ trk.pc # "returned" /\ trk.stream = "open" /\ trk.pending = None
    /\ \E e \in {EndOfStream, ReadError} :
          trk' = [trk EXCEPT !.pending = Some(e), !.stream = "ended"]
    /\ UNCHANGED <<batchVars, inactivityTimeout, call>>

\* line 2186, scanner.Scan(): blocks until the stream has a line or ends
ReaderScan ==
    /\ trk.pc = "scan" /\ trk.pending # None
    /\ trk' = IF trk.pending[1].kind \in {"eof", "err"}
              THEN [trk EXCEPT !.pc = "end", !.pending = None,
                               !.scanErr = (trk.pending[1].kind = "err")]
              ELSE [trk EXCEPT !.pc = "select", !.pending = None, !.line = trk.pending[1]]
    /\ UNCHANGED <<batchVars, inactivityTimeout, call>>

\* lines 2187-2193: done is closed, the state is read and returned (here
\* and at every return, what the stream still holds is lost: runAgent
\* closes it, line 2057)
ReaderSelectDone ==
    /\ trk.pc = "select" /\ trk.doneClosed
    /\ trk' = [trk EXCEPT !.pc = "returned", !.pending = None, !.stream = "closed",
                          !.verdict = Verdict(trk.completed, trk.errorMsg)]
    /\ UNCHANGED <<batchVars, inactivityTimeout, call>>

\* lines 2194-2202: done is open; a non-blank line refreshes lastActivity
ReaderActivity ==
    /\ trk.pc = "select" /\ ~trk.doneClosed
    /\ trk' = [trk EXCEPT
                  !.pc = "handle",
                  !.lastActivity = IF NonBlank(trk.line) THEN trk.now ELSE @,
                  !.lastOther = IF NonBlank(trk.line)
                                   /\ ~(trk.line.kind = "event"
                                        /\ HasPrefix(trk.line.type, ServerPrefix))
                                THEN trk.now ELSE @]
    /\ UNCHANGED <<batchVars, inactivityTimeout, call>>

\* lines 2204-2232, 2236-2245, 2260-2268, 2275-2280: the line is parsed
\* and dispatched, up to the end of the locked section of its case; a line
\* that is skipped is gone when the loop continues
ReaderHandle ==
    /\ trk.pc = "handle"
    /\ LET what == Dispatch(trk.line, trk.sessionID) IN
       trk' = CASE what = "idle" -> [trk EXCEPT !.pc = "closeIdle", !.completed = TRUE,
                                                !.idled = TRUE]
                [] what = "error" ->
                      [trk EXCEPT !.pc = "closeError",
                                  !.errorMsg = SessionErrorMessage(trk.line),
                                  !.handled = Some(SessionErrorMessage(trk.line))]
                [] OTHER ->
                      [trk EXCEPT !.pc = "scan", !.line = BlankLine,
                                  !.skipped = @ \/ (/\ ForeignEvent(trk.line, trk.sessionID)
                                                    /\ trk.line.type \in
                                                          {SessionIdle, SessionError})]
    /\ UNCHANGED <<batchVars, inactivityTimeout, call>>

\* ReaderCloseIdle returning the state it reads, as the other returns do
ReaderCloseIdleReadsState ==
    /\ trk.pc = "closeIdle"
    /\ trk' = [closeDone(trk) EXCEPT !.pc = "returned", !.pending = None, !.stream = "closed",
                                     !.verdict = Verdict(trk.completed, trk.errorMsg)]
    /\ UNCHANGED <<batchVars, inactivityTimeout, call>>

\* lines 2233-2234 and 2246-2247: closeDone(); return true, ""
ReaderCloseIdle ==
    /\ trk.pc = "closeIdle"
    /\ trk' = [closeDone(trk) EXCEPT !.pc = "returned", !.pending = None, !.stream = "closed",
                          !.verdict = Verdict(TRUE, <<>>)]
    /\ UNCHANGED <<batchVars, inactivityTimeout, call>>

\* line 2269: closeDone() of the session.error case
ReaderCloseError ==
    /\ trk.pc = "closeError"
    /\ trk' = [closeDone(trk) EXCEPT !.pc = "readError"]
    /\ UNCHANGED <<batchVars, inactivityTimeout, call>>

\* lines 2270-2273: errorMsg is read again and returned
ReaderReturnError ==
    /\ trk.pc = "readError"
    /\ trk' = [trk EXCEPT !.pc = "returned", !.pending = None, !.stream = "closed",
                          !.verdict = Verdict(FALSE, trk.errorMsg)]
    /\ UNCHANGED <<batchVars, inactivityTimeout, call>>

\* lines 2283-2290: the loop has ended; a scanner error is recorded unless
\* an error is recorded already
ReaderStreamEnd ==
    /\ trk.pc = "end"
    /\ trk' = [trk EXCEPT
                  !.pc = "closeEnd",
                  !.errorMsg = IF trk.scanErr /\ @ = <<>>
                               THEN StreamErrorMessage(ScanError) ELSE @,
                  !.foundAtEnd = Some(trk.errorMsg)]
    /\ UNCHANGED <<batchVars, inactivityTimeout, call>>

\* line 2292: closeDone() after the loop
ReaderCloseEnd ==
    /\ trk.pc = "closeEnd"
    /\ trk' = [closeDone(trk) EXCEPT !.pc = "readEnd"]
    /\ UNCHANGED <<batchVars, inactivityTimeout, call>>

\* lines 2293-2297: the state is read and returned
ReaderReturnEnd ==
    /\ trk.pc = "readEnd"
    /\ trk' = [trk EXCEPT !.pc = "returned", !.pending = None, !.stream = "closed",
                          !.verdict = Verdict(trk.completed, trk.errorMsg)]
    /\ UNCHANGED <<batchVars, inactivityTimeout, call>>

\* lines 2164-2166: the watcher's select takes <-done and returns
WatcherDone ==
    /\ trk.wpc = "select" /\ trk.doneClosed
    /\ trk' = [trk EXCEPT !.wpc = "exited", !.tick = FALSE]
    /\ UNCHANGED <<batchVars, inactivityTimeout, call>>

\* lines 2167-2171: the watcher's select takes a tick and reads the state
WatcherTick ==
    /\ trk.wpc = "select" /\ trk.tick
    /\ trk' = [trk EXCEPT !.wpc = "check", !.tick = FALSE,
                          !.inactiveFor = trk.now - trk.lastActivity,
                          !.alreadyFailed = (trk.errorMsg # <<>>)]
    /\ UNCHANGED <<batchVars, inactivityTimeout, call>>

\* line 2172, the condition is false: back to the select
WatcherNoTimeout ==
    /\ trk.wpc = "check"
    /\ ~(~trk.alreadyFailed /\ trk.inactiveFor > inactivityTimeout)
    /\ trk' = [trk EXCEPT !.wpc = "select", !.inactiveFor = 0, !.alreadyFailed = FALSE]
    /\ UNCHANGED <<batchVars, inactivityTimeout, call>>

\* lines 2172-2176: the timeout has passed, errorMsg is set
WatcherTimeout ==
    /\ trk.wpc = "check"
    /\ ~trk.alreadyFailed /\ trk.inactiveFor > inactivityTimeout
    /\ trk' = [trk EXCEPT !.wpc = "close", !.errorMsg = TimeoutMessage(inactivityTimeout),
                          !.inactiveFor = 0, !.alreadyFailed = FALSE, !.fired = TRUE]
    /\ UNCHANGED <<batchVars, inactivityTimeout, call>>

\* lines 2177-2178: closeDone(); return
WatcherClose ==
    /\ trk.wpc = "close"
    /\ trk' = [closeDone(trk) EXCEPT !.wpc = "exited", !.tick = FALSE]
    /\ UNCHANGED <<batchVars, inactivityTimeout, call>>

Reader ==
    \/ ReaderScan
    \/ ReaderSelectDone
    \/ ReaderActivity
    \/ ReaderHandle
    \/ ReaderCloseIdle
    \/ ReaderCloseError
    \/ ReaderReturnError
    \/ ReaderStreamEnd
    \/ ReaderCloseEnd
    \/ ReaderReturnEnd

Watcher ==
    \/ WatcherDone
    \/ WatcherTick
    \/ WatcherNoTimeout
    \/ WatcherTimeout
    \/ WatcherClose

TrackerNext ==
    \/ ClockTick
    \/ Deliver
    \/ StreamEnds
    \/ ReaderScan
    \/ ReaderSelectDone
    \/ ReaderActivity
    \/ ReaderHandle
    \/ ReaderCloseIdle
    \/ ReaderCloseError
    \/ ReaderReturnError
    \/ ReaderStreamEnd
    \/ ReaderCloseEnd
    \/ ReaderReturnEnd
    \/ WatcherDone
    \/ WatcherTick
    \/ WatcherNoTimeout
    \/ WatcherTimeout
    \/ WatcherClose

TrackerSpec == TrackerInit /\ [][TrackerNext]_vars

\* the Go scheduler runs every goroutine that can take a step, a select
\* with several ready cases picks one at random (so the watcher does not
\* pass over <-done for ever), and time passes; the daemon is not obliged
\* to write to the stream or to end it
FairTrackerSpec ==
    /\ TrackerInit /\ [][TrackerNext]_vars
    /\ WF_vars(Reader)
    /\ WF_vars(Watcher)
    /\ SF_vars(WatcherDone)
    /\ WF_vars(ClockTick)

(***************************************************************************)
(* The Error Classifier, one call at a time.                               *)
(***************************************************************************)
\* the parts error messages are made of: the texts the classifier looks
\* for, a blank, and texts it does not look for
MessageTokens ==
    {"no agent activity for", "event stream error:", "agent did not reach idle state",
     " ", "180s", "Failed to send prompt: HTTP 401"}

\* the messages of at most n tokens
RECURSIVE Messages(_)
Messages(n) ==
    IF n = 0 THEN {<<>>}
    ELSE LET shorter == Messages(n - 1) IN
         shorter \cup {Append(m, t) : m \in shorter, t \in MessageTokens}

ClassifierInit ==
    /\ mode = "sequential"
    /\ tasks = RunTasks(1)
    /\ model = StartModel
    /\ transientRetries = defaultTransientRetries
    /\ inactivityTimeout = defaultInactivityTimeoutSeconds
    /\ sched = [pc |-> "first", i |-> 0, currentModel |-> model]
    /\ gor = [i \in DOMAIN tasks |-> "ready"]
    /\ results = [i \in DOMAIN tasks |-> ZeroResult]
    /\ retry = [i \in DOMAIN tasks |-> IdleRetry]
    /\ agent = [i \in DOMAIN tasks |-> IdleAgent]
    /\ children = {}
    /\ disk = <<>>
    /\ wallClock = 0
    /\ hist = [i \in DOMAIN tasks |-> NoHistory]
    /\ trk = NoTracker
    /\ \E m \in Messages(MaxMsgLen) :
          call = [fn |-> "isTransientEvalError", pc |-> "called", arg |-> m, ret |-> FALSE]

\* line 1976: isTransientEvalError(result.Error) is evaluated
ClassifyTransient ==
    /\ call.fn = "isTransientEvalError" /\ call.pc = "called"
    /\ call' = [call EXCEPT !.pc = "returned", !.ret = isTransientEvalError(call.arg)]
    /\ UNCHANGED <<batchVars, inactivityTimeout, trk>>

ClassifierNext ==
    \/ ClassifyTransient

ClassifierSpec == ClassifierInit /\ [][ClassifierNext]_vars

(***************************************************************************)
(* The suggestions of a model-not-found message, one call at a time.       *)
(***************************************************************************)
\* the beginnings of the messages explored: none, a model-not-found message
\* up to its suggestions, the same without "Model not found", and
\* "Model not found" alone
SuggestionHeads ==
    {<<>>, ModelNotFoundFragment \o <<": x. ">> \o DidYouMeanFragment,
     DidYouMeanFragment, ModelNotFoundFragment}

\* what follows the beginning: a suggestion, the characters the function
\* looks at, and the fragment again
SuggestionTokens == {"a", ",", " ", "?", "Did you mean: "}

\* the sequences of at most n of these tokens
RECURSIVE SuggestionTails(_)
SuggestionTails(n) ==
    IF n = 0 THEN {<<>>}
    ELSE LET shorter == SuggestionTails(n - 1) IN
         shorter \cup {Append(m, t) : m \in shorter, t \in SuggestionTokens}

SuggestionInit ==
    /\ mode = "sequential"
    /\ tasks = RunTasks(1)
    /\ model = StartModel
    /\ transientRetries = defaultTransientRetries
    /\ inactivityTimeout = defaultInactivityTimeoutSeconds
    /\ sched = [pc |-> "first", i |-> 0, currentModel |-> model]
    /\ gor = [i \in DOMAIN tasks |-> "ready"]
    /\ results = [i \in DOMAIN tasks |-> ZeroResult]
    /\ retry = [i \in DOMAIN tasks |-> IdleRetry]
    /\ agent = [i \in DOMAIN tasks |-> IdleAgent]
    /\ children = {}
    /\ disk = <<>>
    /\ wallClock = 0
    /\ hist = [i \in DOMAIN tasks |-> NoHistory]
    /\ trk = NoTracker
    /\ \E h \in SuggestionHeads, t \in SuggestionTails(MaxTailLen) :
          call = [fn |-> "isModelNotFoundError", pc |-> "called", arg |-> h \o t,
                  ret |-> <<FALSE, <<>>>>]

\* line 1942: isModelNotFoundError(results[i].Error) is evaluated
ClassifyModelNotFound ==
    /\ call.fn = "isModelNotFoundError" /\ call.pc = "called"
    /\ call' = [call EXCEPT !.pc = "returned", !.ret = isModelNotFoundError(call.arg)]
    /\ UNCHANGED <<batchVars, inactivityTimeout, trk>>

SuggestionNext ==
    \/ ClassifyModelNotFound

SuggestionSpec == SuggestionInit /\ [][SuggestionNext]_vars

(***************************************************************************)
(* The functions of model identifiers, one call at a time.                 *)
(***************************************************************************)
\* the state of the engine while a pure function is studied: no batch runs
NoBatch ==
    /\ mode = "sequential"
    /\ tasks = RunTasks(1)
    /\ model = StartModel
    /\ sched = [pc |-> "first", i |-> 0, currentModel |-> model]
    /\ gor = [i \in DOMAIN tasks |-> "ready"]
    /\ results = [i \in DOMAIN tasks |-> ZeroResult]
    /\ retry = [i \in DOMAIN tasks |-> IdleRetry]
    /\ agent = [i \in DOMAIN tasks |-> IdleAgent]
    /\ children = {}
    /\ disk = <<>>
    /\ wallClock = 0
    /\ hist = [i \in DOMAIN tasks |-> NoHistory]
    /\ trk = NoTracker

\* the characters of the identifiers explored: an upper-case and a
\* lower-case letter, a digit, the separator, the three characters of the
\* cut set, a blank and a character that is none of these
IdChars == {"A", "a", "1", "/", "-", "_", ".", " ", ":"}

\* the strings of at most n characters
RECURSIVE IdStrings(_)
IdStrings(n) ==
    IF n = 0 THEN {<<>>}
    ELSE LET shorter == IdStrings(n - 1) IN
         shorter \cup {Append(m, c) : m \in shorter, c \in IdChars}

\* n times the letter a
Fill(n) == [k \in 1..n |-> "a"]

\* the heads of the identifiers explored: none, and two heads that bring
\* the sanitized identifier to maxLen - 2 characters, one with a provider
\* and one that normalizeModelID prefixes
IdHeads ==
    {<<>>, <<"o", "/">> \o Fill(maxLen - 4), Fill(maxLen - Len(OpenrouterPrefix) - 2)}

\* the identifiers explored: a head and a tail of at most MaxIdLen characters
ModelIds == {h \o t : h \in IdHeads, t \in IdStrings(MaxIdLen)}

ModelIdInit ==
    /\ NoBatch
    /\ transientRetries = defaultTransientRetries
    /\ inactivityTimeout = defaultInactivityTimeoutSeconds
    /\ \E m \in ModelIds, f \in {"sanitizeModelForFolder", "normalizeModelID", "parseModel"} :
          call = [fn |-> f, pc |-> "called", arg |-> m, ret |-> <<>>]

\* line 1784: sanitizeModelForFolder(model) is evaluated
CallSanitize ==
    /\ call.fn = "sanitizeModelForFolder" /\ call.pc = "called"
    /\ call' = [call EXCEPT !.pc = "returned", !.ret = sanitizeModelForFolder(call.arg)]
    /\ UNCHANGED <<batchVars, inactivityTimeout, trk>>

\* line 1737: normalizeModelID(model) is evaluated
CallNormalize ==
    /\ call.fn = "normalizeModelID" /\ call.pc = "called"
    /\ call' = [call EXCEPT !.pc = "returned", !.ret = normalizeModelID(call.arg)]
    /\ UNCHANGED <<batchVars, inactivityTimeout, trk>>

\* line 2014: parseModel(modelStr) is evaluated
CallParse ==
    /\ call.fn = "parseModel" /\ call.pc = "called"
    /\ call' = [call EXCEPT !.pc = "returned", !.ret = parseModel(call.arg)]
    /\ UNCHANGED <<batchVars, inactivityTimeout, trk>>

ModelIdNext ==
    \/ CallSanitize
    \/ CallNormalize
    \/ CallParse

ModelIdSpec == ModelIdInit /\ [][ModelIdNext]_vars

(***************************************************************************)
(* scanEvalFolders, one call at a time.                                    *)
(***************************************************************************)
\* the names of the entries of evals/ explored: without a marker, a marker
\* that is the whole name, a marker between underscores, a zero marker
\* before a positive one, and a "p2" that follows a letter
FolderNames ==
    {<<"o","l","d">>, <<"p","7">>, <<"x","_","p","2","_","y">>,
     <<"x","_","p","0","_","p","2","_","y">>, <<"x","p","2","_","y">>}

\* result.json of an entry: absent, not parsable, or parsed with the
\* prompt_number it holds (0 when the field is omitted)
ResultJSONs ==
    {None, Some([ok |-> FALSE, PromptNumber |-> 0])}
        \cup {Some([ok |-> TRUE, PromptNumber |-> n]) : n \in {-1, 0, 2}}

\* the texts of prompt.txt and of the prompts of prompts.json
ListedPrompts == {PromptText(1), PromptText(2)}
PromptTexts == ListedPrompts \cup {PromptText(3)}

\* the entries of evals/: a plain file, and directories with or without
\* prompt.txt and result.json
DirEntries ==
    {[Name |-> <<"f">>, IsDir |-> FALSE, promptTxt |-> None, resultJSON |-> None]}
    \cup {[Name |-> n, IsDir |-> TRUE, promptTxt |-> None, resultJSON |-> None] :
            n \in {<<"o","l","d">>}}
    \cup {[Name |-> n, IsDir |-> TRUE, promptTxt |-> Some(t), resultJSON |-> r] :
            n \in FolderNames, t \in PromptTexts, r \in ResultJSONs}

\* the sequences of at most n elements of S
RECURSIVE SeqsUpTo(_, _)
SeqsUpTo(S, n) ==
    IF n = 0 THEN {<<>>}
    ELSE LET shorter == SeqsUpTo(S, n - 1) IN
         shorter \cup {Append(q, e) : q \in shorter, e \in S}

\* what loadPrompts returns: <<prompts, failed>>
LoadedPrompts ==
    {<<l, FALSE>> : l \in SeqsUpTo(ListedPrompts, MaxPrompts)} \cup {<<(<<>>), TRUE>>}

\* buildPromptNumberByPrompt with the map filled from the last prompt on
buildPromptNumberByPromptLast(loaded) ==
    IF loaded[2] \/ loaded[1] = <<>> THEN <<>>
    ELSE [t \in {loaded[1][k] : k \in 1..Len(loaded[1])} |->
            CHOOSE k \in 1..Len(loaded[1]) :
                /\ loaded[1][k] = t
                /\ \A j \in (k + 1)..Len(loaded[1]) : loaded[1][j] # t]
\* buildPromptNumberByPrompt: the map from a prompt text to i + 1 for the
\* first i that holds it
buildPromptNumberByPrompt(loaded) ==
    IF loaded[2] \/ loaded[1] = <<>> THEN <<>>
    ELSE [t \in {loaded[1][k] : k \in 1..Len(loaded[1])} |->
            CHOOSE k \in 1..Len(loaded[1]) :
                /\ loaded[1][k] = t
                /\ \A j \in 1..(k - 1) : loaded[1][j] # t]

\* lines 1870-1899: the EvalFolder made of a directory that has prompt.txt
ScanFolder(entry, promptNumberByText) ==
    LET path == <<"e","v","a","l","s","/">> \o entry.Name
        rj == entry.resultJSON
        parsed == rj # None /\ rj[1].ok
        stored == IF parsed /\ rj[1].PromptNumber > 0 THEN rj[1].PromptNumber ELSE 0
        named == IF stored = 0 THEN parsePromptNumberFromFolder(Base(path)) ELSE stored
        listed == IF named = 0
                  THEN IF entry.promptTxt[1] \in DOMAIN promptNumberByText
                       THEN promptNumberByText[entry.promptTxt[1]]
                       ELSE 0
                  ELSE named
    IN [Path |-> path, Prompt |-> entry.promptTxt[1], PromptNumber |-> listed,
        Result |-> IF parsed THEN rj ELSE None]

\* lines 1866-1902: the loop over the entries
RECURSIVE ScanLoop(_, _, _)
ScanLoop(entries, promptNumberByText, folders) ==
    IF entries = <<>> THEN folders
    ELSE LET entry == Head(entries) IN
         IF ~entry.IsDir \/ entry.promptTxt = None
         THEN ScanLoop(Tail(entries), promptNumberByText, folders)
         ELSE ScanLoop(Tail(entries), promptNumberByText,
                       Append(folders, ScanFolder(entry, promptNumberByText)))

\* scanEvalFolders on a listing of evals/ (os.ReadDir succeeded)
scanEvalFolders(entries, loaded) ==
    ScanLoop(entries, buildPromptNumberByPrompt(loaded), <<>>)

\* os.ReadDir lists each name once
Listings ==
    {l \in SeqsUpTo(DirEntries, MaxFolders) :
        \A i, j \in 1..Len(l) : l[i].Name = l[j].Name => i = j}

ScanInit ==
    /\ NoBatch
    /\ transientRetries = defaultTransientRetries
    /\ inactivityTimeout = defaultInactivityTimeoutSeconds
    /\ \E l \in Listings, loaded \in LoadedPrompts :
          call = [fn |-> "scanEvalFolders", pc |-> "called",
                  arg |-> [entries |-> l, loaded |-> loaded], ret |-> <<>>]

\* line 990 (resumeCommand): scanEvalFolders() is evaluated
CallScan ==
    /\ call.fn = "scanEvalFolders" /\ call.pc = "called"
    /\ call' = [call EXCEPT !.pc = "returned",
                            !.ret = scanEvalFolders(call.arg.entries, call.arg.loaded)]
    /\ UNCHANGED <<batchVars, inactivityTimeout, trk>>

ScanNext ==
    \/ CallScan

ScanSpec == ScanInit /\ [][ScanNext]_vars

(***************************************************************************)
(* The model picker: pinning of saved models and the model-match ranker,   *)
(* one call at a time.                                                     *)
(***************************************************************************)
\* isSavedModel(savedSet, model)
isSavedModel(savedSet, modelID) == IF savedSet = {} THEN FALSE ELSE modelID \in savedSet

\* pinSavedModels with the saved models moved to the back
pinSavedModelsOthersFirst(models, savedSet) ==
    IF models = <<>> \/ savedSet = {} THEN models
    ELSE SelectSeq(models, LAMBDA m : ~isSavedModel(savedSet, m))
            \o SelectSeq(models, LAMBDA m : isSavedModel(savedSet, m))
\* pinSavedModels(models, savedSet): pinned, then others
pinSavedModels(models, savedSet) ==
    IF models = <<>> \/ savedSet = {} THEN models
    ELSE SelectSeq(models, LAMBDA m : isSavedModel(savedSet, m))
            \o SelectSeq(models, LAMBDA m : ~isSavedModel(savedSet, m))

\* pinSavedModelIDs(providerID, modelIDs, savedSet): membership is judged
\* on providerID + "/" + modelID
pinSavedModelIDs(providerID, modelIDs, savedSet) ==
    IF modelIDs = <<>> \/ savedSet = {} THEN modelIDs
    ELSE SelectSeq(modelIDs, LAMBDA m : isSavedModel(savedSet, providerID \o <<"/">> \o m))
            \o SelectSeq(modelIDs, LAMBDA m : ~isSavedModel(savedSet, providerID \o <<"/">> \o m))

\* unicode.IsLetter(r) || unicode.IsDigit(r), on the characters of the model
IsLetterOrDigit(r) == r \in LowerAlpha \/ r \in DOMAIN UpperToLower \/ r \in Digit

\* normalizeForSearch(s): lowercase, letters and digits only
normalizeForSearch(s) == SelectSeq(ToLower(s), IsLetterOrDigit)

\* strings.FieldsFunc(s, f) with f the characters that are no letter or
\* digit: the maximal runs of letters and digits; cur is the field begun
RECURSIVE FieldsLoop(_, _, _)
FieldsLoop(rest, cur, fields) ==
    IF rest = <<>> THEN (IF cur = <<>> THEN fields ELSE Append(fields, cur))
    ELSE IF IsLetterOrDigit(Head(rest))
         THEN FieldsLoop(Tail(rest), Append(cur, Head(rest)), fields)
         ELSE FieldsLoop(Tail(rest), <<>>, IF cur = <<>> THEN fields ELSE Append(fields, cur))

\* splitSearchTokens(s)
splitSearchTokens(s) == FieldsLoop(ToLower(s), <<>>, <<>>)

\* the loop of isSubsequence: q characters of query are matched so far
RECURSIVE SubsequenceLoop(_, _, _)
SubsequenceLoop(query, target, q) ==
    IF target = <<>> THEN FALSE
    ELSE IF q < Len(query) /\ query[q + 1] = Head(target)
         THEN IF q + 1 = Len(query) THEN TRUE
              ELSE SubsequenceLoop(query, Tail(target), q + 1)
         ELSE SubsequenceLoop(query, Tail(target), q)

\* isSubsequence(query, target)
isSubsequence(query, target) ==
    IF query = <<>> THEN TRUE ELSE SubsequenceLoop(query, target, 0)

\* lines 1633-1647, the loop over the query tokens:
\* <<tokenHits, tokenScore, ordered>>
RECURSIVE TokenLoop(_, _, _, _, _, _)
TokenLoop(tokens, lowerModel, tokenHits, tokenScore, searchPos, ordered) ==
    IF tokens = <<>> THEN <<tokenHits, tokenScore, ordered>>
    ELSE LET token == Head(tokens)
             hit == Contains(lowerModel, token)
             next == IF ordered
                     THEN Index(SubSeq(lowerModel, searchPos + 1, Len(lowerModel)), token)
                     ELSE -1
         IN TokenLoop(Tail(tokens), lowerModel,
                      IF hit THEN tokenHits + 1 ELSE tokenHits,
                      IF hit THEN tokenScore + 20 ELSE tokenScore,
                      IF ordered /\ next # -1 THEN searchPos + next + Len(token) ELSE searchPos,
                      ordered /\ next # -1)

\* scoreModelMatch(model, lowerQuery, normalizedQuery, queryTokens), the
\* model argument being candidate:
\* <<score, matched>>
scoreModelMatch(candidate, lowerQuery, normalizedQuery, queryTokens) ==
    LET lowerModel == ToLower(candidate)
        normalizedModel == normalizeForSearch(candidate)
        lower == lowerQuery # <<>> /\ Contains(lowerModel, lowerQuery)
        norm == normalizedQuery # <<>>
        sub == norm /\ Contains(normalizedModel, normalizedQuery)
        pre == norm /\ HasPrefix(normalizedModel, normalizedQuery)
        seq == norm /\ isSubsequence(normalizedQuery, normalizedModel)
        tok == TokenLoop(queryTokens, lowerModel, 0, 0, 0, TRUE)
        all == tok[1] > 0 /\ tok[1] = Len(queryTokens)
    IN << (IF lower THEN 140 ELSE 0) + (IF sub THEN 120 ELSE 0) + (IF pre THEN 30 ELSE 0)
            + (IF seq THEN 50 ELSE 0) + (IF tok[1] > 0 THEN tok[2] ELSE 0)
            + (IF all THEN 40 ELSE 0)
            + (IF all /\ tok[3] /\ Len(queryTokens) > 1 THEN 20 ELSE 0),
          lower \/ sub \/ seq \/ tok[1] > 0 >>

\* the characters of the model in the order of their bytes
ByteOrder ==
    <<" ", "-", ".", "/", "0", "1", "2", "3", "4", "5", "6", "7", "8", "9", ":",
      "A", "B", "C", "D", "E", "F", "G", "H", "I", "J", "K", "L", "M",
      "N", "O", "P", "Q", "R", "S", "T", "U", "V", "W", "X", "Y", "Z", "_",
      "a", "b", "c", "d", "e", "f", "g", "h", "i", "j", "k", "l", "m",
      "n", "o", "p", "q", "r", "s", "t", "u", "v", "w", "x", "y", "z">>
ByteRank(c) == CHOOSE k \in 1..Len(ByteOrder) : ByteOrder[k] = c

\* a < b of Go strings: the bytes are compared from the left
StringLess(a, b) ==
    \E k \in 1..(Len(b)) :
        /\ \A j \in 1..(k - 1) : j <= Len(a) /\ a[j] = b[j]
        /\ k > Len(a) \/ ByteRank(a[k]) < ByteRank(b[k])

\* the less function of line 1586 with ties left to the score alone
ScoredLessNoTieBreak(x, y) == x.score > y.score
\* lines 1586-1591, the less function of sort.Slice
ScoredLess(x, y) ==
    IF x.score = y.score THEN StringLess(x.model, y.model) ELSE x.score > y.score

\* sort.Slice(scored, less): x is put before the first element it is less than
RECURSIVE InsertScored(_, _)
InsertScored(sorted, x) ==
    IF sorted = <<>> THEN <<x>>
    ELSE IF ScoredLess(x, Head(sorted)) THEN <<x>> \o sorted
         ELSE <<Head(sorted)>> \o InsertScored(Tail(sorted), x)

RECURSIVE SortScored(_)
SortScored(scored) ==
    IF scored = <<>> THEN <<>>
    ELSE InsertScored(SortScored(SubSeq(scored, 1, Len(scored) - 1)), scored[Len(scored)])

\* filterModels(models, query)
filterModels(models, query) ==
    LET trimmed == TrimSpace(query) IN
    IF trimmed = <<>> THEN models
    ELSE LET lowerQuery == ToLower(trimmed)
             normalizedQuery == normalizeForSearch(trimmed)
             queryTokens == splitSearchTokens(trimmed)
             Score(m) == scoreModelMatch(m, lowerQuery, normalizedQuery, queryTokens)
             all == [k \in 1..Len(models) |->
                        [model |-> models[k], score |-> Score(models[k])[1],
                         ok |-> Score(models[k])[2]]]
             scored == SelectSeq(all, LAMBDA x : x.ok)
             sorted == SortScored(scored)
         IN [k \in 1..Len(sorted) |-> sorted[k].model]

\* the model identifiers of the picker, and their provider-local parts
PickerProviders == {<<"o">>, <<"P">>}
PickerModelIDs == {<<"g","-","5">>, <<"g","m","5">>, <<"5","g">>}
PickerModels ==
    {<<"o","/","g","-","5">>, <<"o","/","g","m","5">>, <<"P","/","5","g">>}

\* the characters of the queries explored
QueryChars == {"g", "5", " ", "o", "G", "-"}

\* the queries of at most n characters
RECURSIVE Queries(_)
Queries(n) ==
    IF n = 0 THEN {<<>>}
    ELSE LET shorter == Queries(n - 1) IN
         shorter \cup {Append(q, c) : q \in shorter, c \in QueryChars}

PickerInit ==
    /\ NoBatch
    /\ transientRetries = defaultTransientRetries
    /\ inactivityTimeout = defaultInactivityTimeoutSeconds
    /\ \/ \E l \in SeqsUpTo(PickerModels, MaxModels), saved \in SUBSET PickerModels :
            call = [fn |-> "pinSavedModels", pc |-> "called",
                    arg |-> [models |-> l, savedSet |-> saved], ret |-> <<>>]
       \/ \E pr \in PickerProviders, l \in SeqsUpTo(PickerModelIDs, MaxModels),
             saved \in SUBSET PickerModels :
            call = [fn |-> "pinSavedModelIDs", pc |-> "called",
                    arg |-> [providerID |-> pr, modelIDs |-> l, savedSet |-> saved],
                    ret |-> <<>>]
       \/ \E l \in SeqsUpTo(PickerModels, MaxModels), q \in Queries(MaxQueryLen) :
            call = [fn |-> "filterModels", pc |-> "called",
                    arg |-> [models |-> l, query |-> q], ret |-> <<>>]

\* lines 1275 and 1408: pinSavedModels(...) is evaluated
CallPinSavedModels ==
    /\ call.fn = "pinSavedModels" /\ call.pc = "called"
    /\ call' = [call EXCEPT !.pc = "returned",
                            !.ret = pinSavedModels(call.arg.models, call.arg.savedSet)]
    /\ UNCHANGED <<batchVars, inactivityTimeout, trk>>

\* line 1217: pinSavedModelIDs(...) is evaluated
CallPinSavedModelIDs ==
    /\ call.fn = "pinSavedModelIDs" /\ call.pc = "called"
    /\ call' = [call EXCEPT !.pc = "returned",
                            !.ret = pinSavedModelIDs(call.arg.providerID, call.arg.modelIDs,
                                                     call.arg.savedSet)]
    /\ UNCHANGED <<batchVars, inactivityTimeout, trk>>

\* lines 1274 and 1403: filterModels(...) is evaluated
CallFilterModels ==
    /\ call.fn = "filterModels" /\ call.pc = "called"
    /\ call' = [call EXCEPT !.pc = "returned",
                            !.ret = filterModels(call.arg.models, call.arg.query)]
    /\ UNCHANGED <<batchVars, inactivityTimeout, trk>>

PickerNext ==
    \/ CallPinSavedModels
    \/ CallPinSavedModelIDs
    \/ CallFilterModels

PickerSpec == PickerInit /\ [][PickerNext]_vars

(***************************************************************************)
(* applyRuntimeOptions, call after call.                                   *)
(***************************************************************************)
\* values of --inactivity-timeout beyond the small ones: 9223372036, the
\* largest number of seconds a time.Duration holds; 9223372037;
\* 18446744074, the smallest whose nanoseconds exceed 2^64; and the
\* largest int64
LargeTimeouts ==
    {<<4, 125, 193, 37, 2, 0, 0, 0>>, <<5, 125, 193, 37, 2, 0, 0, 0>>,
     <<10, 250, 130, 75, 4, 0, 0, 0>>, <<255, 255, 255, 255, 255, 255, 255, 127>>}

TimeoutOptions == {Int64(n) : n \in (-2)..MaxOption} \cup LargeTimeouts
RetryOptions == (-2)..MaxOption

\* lines 37-38: the package variables before any call
OptionsInit ==
    /\ NoBatch
    /\ inactivityTimeout = Duration(Int64(defaultInactivityTimeoutSeconds))
    /\ transientRetries = defaultTransientRetries
    /\ call = NoCall

\* lines 864 and 988: applyRuntimeOptions(*flagInactivityTimeout, *flagRetries)
ApplyRuntimeOptions ==
    /\ \E t \in TimeoutOptions, r \in RetryOptions :
        /\ inactivityTimeout' = applyRuntimeOptions(t, r)[1]
        /\ transientRetries' = applyRuntimeOptions(t, r)[2]
        /\ call' = [fn |-> "applyRuntimeOptions", pc |-> "returned",
                    arg |-> [timeoutSeconds |-> t, retries |-> r]]
    /\ UNCHANGED <<mode, tasks, model, sched, gor, results, retry, agent, children,
                   disk, wallClock, hist, trk>>

OptionsNext ==
    \/ ApplyRuntimeOptions

OptionsSpec == OptionsInit /\ [][OptionsNext]_vars

(***************************************************************************)
(* Folder names: one call of createTimestampFolder followed by the         *)
(* recovery of the prompt number, or one call of                           *)
(* parsePromptNumberFromFolder.                                            *)
(***************************************************************************)
\* the arguments of createTimestampFolder explored: the model ids include
\* the empty one, one with "/" and "_p5_" inside and one that ends in "_p5"
FolderIndices == {0, 3, 12}
FolderPromptNumbers == {-1, 0, 1, 7, 12}
FolderModels ==
    {<<>>, <<"x">>, <<"o", "/", "x", "_", "p", "5", "_", "y">>, <<"_", "p", "5">>}

\* the folder names given to parsePromptNumberFromFolder
NameChars == {"p", "7", "0", "_", "x"}
RECURSIVE Names(_)
Names(n) ==
    IF n = 0 THEN {<<>>}
    ELSE LET shorter == Names(n - 1) IN
         shorter \cup {Append(m, c) : m \in shorter, c \in NameChars}

FolderInit ==
    /\ NoBatch
    /\ transientRetries = defaultTransientRetries
    /\ inactivityTimeout = defaultInactivityTimeoutSeconds
    /\ \/ \E index \in FolderIndices, n \in FolderPromptNumbers, m \in FolderModels,
             sec \in {0, 59} :
             call = [fn |-> "createTimestampFolder", pc |-> "called", index |-> index,
                     promptNumber |-> n, model |-> m, sec |-> sec, folder |-> <<>>,
                     ret |-> 0]
       \/ \E name \in Names(MaxNameLen) :
             call = [fn |-> "parsePromptNumberFromFolder", pc |-> "called", index |-> 0,
                     promptNumber |-> 0, model |-> <<>>, sec |-> 0, folder |-> name,
                     ret |-> 0]

\* line 1988: createTimestampFolder(index, promptNumber, modelStr)
CallCreateFolder ==
    /\ call.fn = "createTimestampFolder" /\ call.pc = "called"
    /\ call' = [call EXCEPT
                  !.pc = "created",
                  !.folder = createTimestampFolder(call.index, call.promptNumber,
                                                   call.model, call.sec)]
    /\ UNCHANGED <<batchVars, inactivityTimeout, trk>>

\* lines 1990 and 1875: parsePromptNumberFromFolder(filepath.Base(folderPath))
\* of a folder made earlier
CallParseBase ==
    /\ call.fn = "createTimestampFolder" /\ call.pc = "created"
    /\ call' = [call EXCEPT !.pc = "returned",
                            !.ret = parsePromptNumberFromFolder(Base(call.folder))]
    /\ UNCHANGED <<batchVars, inactivityTimeout, trk>>

\* parsePromptNumberFromFolder(folderName) of any folder name
CallParseName ==
    /\ call.fn = "parsePromptNumberFromFolder" /\ call.pc = "called"
    /\ call' = [call EXCEPT !.pc = "returned",
                            !.ret = parsePromptNumberFromFolder(call.folder)]
    /\ UNCHANGED <<batchVars, inactivityTimeout, trk>>

FolderNext ==
    \/ CallCreateFolder
    \/ CallParseBase
    \/ CallParseName

FolderSpec == FolderInit /\ [][FolderNext]_vars

(***************************************************************************)
(* resumeCommand, from the model selection to the calls of the batch.      *)
(***************************************************************************)
\* lines 933 and 1090: the model used when none is given
DefaultModel == <<"opencode/kimi-k2.5-free">>

\* what result.json of a selected folder holds: no file (Result == nil), a
\* result without a model, or a result with a model
StoredResults == {None, Some([Model |-> <<>>]), Some([Model |-> <<"a">>]),
                  Some([Model |-> <<"o", "/", "b">>])}

\* the selected evals: folders[idx] for idx in selectedIndices
SelectedFolders(n) ==
    {[k \in 1..n |-> [Path |-> OldFolder(k - 1), Prompt |-> PromptText(k),
                      PromptNumber |-> parsePromptNumberFromFolder(Base(OldFolder(k - 1))),
                      Result |-> rs[k]]] : rs \in [1..n -> StoredResults]}

\* lines 1072-1086, the loop over the selected evals from the i-th on:
\* <<tasks, modelStr>>
RECURSIVE ResumeLoop(_, _, _, _)
ResumeLoop(selected, i, ts, modelStr) ==
    IF i > Len(selected) THEN <<ts, modelStr>>
    ELSE LET ef == selected[i] IN
         ResumeLoop(selected, i + 1,
                    Append(ts, [Prompt |-> ef.Prompt, PromptNumber |-> ef.PromptNumber,
                                Folder |-> ef.Path]),
                    IF modelStr = <<>> /\ ef.Result # None /\ ef.Result[1].Model # <<>>
                       /\ i - 1 = 0
                    THEN ef.Result[1].Model ELSE modelStr)

\* lines 1072-1091: the tasks and the model of the batch
ResumeBatch(selected, selection) ==
    LET built == ResumeLoop(selected, 1, <<>>, selection) IN
    <<built[1], IF built[2] = <<>> THEN DefaultModel ELSE built[2]>>

ResumeInit ==
    /\ NoBatch
    /\ transientRetries = defaultTransientRetries
    /\ inactivityTimeout = defaultInactivityTimeoutSeconds
    /\ \E n \in 1..MaxTasks :
       \E selected \in SelectedFolders(n), selection \in {<<>>, StartModel} :
          call = [fn |-> "resumeCommand", pc |-> "selected", selected |-> selected,
                  selection |-> selection, tasks |-> <<>>, modelStr |-> selection,
                  ranWith |-> <<>>]

\* lines 1072-1091: the tasks are built and the model of the batch is chosen
ResumeBuildTasks ==
    /\ call.fn = "resumeCommand" /\ call.pc = "selected"
    /\ call' = [call EXCEPT !.pc = "batch",
                            !.tasks = ResumeBatch(call.selected, call.selection)[1],
                            !.modelStr = ResumeBatch(call.selected, call.selection)[2]]
    /\ UNCHANGED <<batchVars, inactivityTimeout, trk>>

\* lines 1100-1104 with 1922 and 1938: the batch calls runAgentWithRetry
\* for the next task with the model of the batch
ResumeRunTask ==
    /\ call.fn = "resumeCommand" /\ call.pc = "batch"
    /\ Len(call.ranWith) < Len(call.tasks)
    /\ call' = [call EXCEPT !.ranWith = Append(@, call.modelStr)]
    /\ UNCHANGED <<batchVars, inactivityTimeout, trk>>

ResumeNext ==
    \/ ResumeBuildTasks
    \/ ResumeRunTask

ResumeSpec == ResumeInit /\ [][ResumeNext]_vars

(***************************************************************************)
(* Properties of a batch.                                                  *)
(***************************************************************************)
Before(tr, a, k) == \E j \in 1..(k - 1) : tr[j] = a
Occurs(tr, a) == \E k \in 1..Len(tr) : tr[k] = a
PostIssued(tr, k) == tr[k] \in {"post", "post failed"}

\* C1: in every attempt of runAgent the POST of the prompt is issued only
\* after GET /event has succeeded, and an attempt whose subscription failed
\* issues no POST
C1_SubscribeBeforePrompt ==
    \A i \in TaskIds :
        LET tr == hist[i].trace IN
        /\ \A k \in 1..Len(tr) : PostIssued(tr, k) => Before(tr, "subscribe", k)
        /\ Occurs(tr, "subscribe failed") => ~\E k \in 1..Len(tr) : PostIssued(tr, k)
        /\ agent[i].pc = "wait" => agent[i].subscribed

\* an attempt has posted its prompt and waits for the verdict, and an
\* attempt of another task has ended on a failed subscription
C1_Witness ==
    \E i, j \in TaskIds :
        /\ agent[i].pc = "wait" /\ Occurs(hist[i].trace, "post")
        /\ Occurs(hist[j].trace, "subscribe failed") /\ Occurs(hist[j].trace, "return")

\* C6 as claimed: every task sees at most 1 + transient_retries runs of
\* runAgent over the whole batch
C6_AtMostOnePlusRetries ==
    \A i \in TaskIds : hist[i].runs <= 1 + transientRetries

\* C6 amended: a call of runAgentWithRetry runs runAgent at most
\* 1 + transient_retries times; a task of a parallel batch sees one call, a
\* task of a sequential batch at most two (the second after a model
\* correction), hence at most 2 * (1 + transient_retries) runs
C6_RunsPerCallAndTask ==
    \A i \in TaskIds :
        /\ hist[i].callRuns <= 1 + transientRetries
        /\ mode = "parallel" => hist[i].runs <= 1 + transientRetries
        /\ mode = "sequential" =>
              /\ hist[i].prompts <= 1
              /\ hist[i].runs <= (1 + hist[i].prompts) * (1 + transientRetries)

\* a task of a sequential batch has had 2 * (1 + transient_retries) runs,
\* more than 1 + transient_retries, with retries enabled
C6_Witness ==
    \E i \in TaskIds :
        /\ mode = "sequential" /\ transientRetries >= 1
        /\ hist[i].runs = 2 * (1 + transientRetries)

\* the attempts of the current call that have ended, and whether a further
\* attempt is due or running after them
AttemptsEnded(i) ==
    IF retry[i].pc = "running" THEN hist[i].callRuns - 1 ELSE hist[i].callRuns
FurtherAttempt(i) == retry[i].pc \in {"loop", "running"} /\ AttemptsEnded(i) >= 1

\* C7: in runAgentWithRetry a further attempt follows only an attempt that
\* failed with a transient error, and only while fewer than
\* 1 + transient_retries attempts were made; the call returns the result of
\* the last attempt, at once after a success or a non-transient error; with
\* transient_retries = 0 one attempt is made
C7_RetryOnlyTransient ==
    \A i \in TaskIds :
        /\ FurtherAttempt(i) =>
              /\ ~retry[i].result.Success
              /\ isTransientEvalError(retry[i].result.Error)
              /\ AttemptsEnded(i) < 1 + transientRetries
        /\ retry[i].pc = "returned" =>
              /\ retry[i].result = hist[i].lastResult
              /\ hist[i].callRuns >= 1
              /\ \/ retry[i].result.Success
                 \/ ~isTransientEvalError(retry[i].result.Error)
                 \/ hist[i].callRuns = 1 + transientRetries
        /\ transientRetries = 0 => hist[i].callRuns <= 1

\* a call has returned the success of its second attempt
C7_Witness ==
    \E i \in TaskIds :
        /\ retry[i].pc = "returned" /\ hist[i].callRuns = 2
        /\ retry[i].result.Success

\* C8: the attempts of one runAgentWithRetry call run in one folder, the
\* one given or the one the first attempt created; no second folder is
\* created; and when the call returns, result.json in that folder records
\* the outcome of the last attempt
C8_OneFolderPerCall ==
    \A i \in TaskIds :
        /\ Cardinality(hist[i].callFolders) <= 1
        /\ hist[i].callCreated <= 1
        /\ retry[i].pc # "idle" /\ tasks[i].Folder # <<>>
              => hist[i].callFolders \subseteq {tasks[i].Folder} /\ hist[i].callCreated = 0
        /\ retry[i].pc = "returned"
              => /\ hist[i].callFolders = {retry[i].result.Folder}
                 /\ retry[i].folder = retry[i].result.Folder
                 /\ Exists(disk, retry[i].folder)
                       => disk[retry[i].folder].result
                            = Some(ResultFile(hist[i].lastResult, retry[i].modelStr))

\* a call without an input folder has returned the success of its second
\* attempt, and result.json of its folder records the success
C8_Witness ==
    \E i \in TaskIds :
        /\ tasks[i].Folder = <<>>
        /\ retry[i].pc = "returned" /\ hist[i].callRuns = 2
        /\ hist[i].lastResult.Success
        /\ Exists(disk, retry[i].folder)
        /\ disk[retry[i].folder].result # None
        /\ disk[retry[i].folder].result[1].Success

\* C9 as claimed: in a sequential batch at most one folder is created for
\* each task
C9_OneFolderPerTask ==
    mode = "sequential" => \A i \in TaskIds : Cardinality(hist[i].created) <= 1

\* the tasks the latest model correction applies to, and that model
Corrected == {i \in TaskIds : hist[i].corrected # <<>>}
LastCorrected == CHOOSE c \in Corrected : \A o \in Corrected : o <= c
RanSinceCorrection(j) ==
    IF j = LastCorrected THEN hist[j].runs > hist[j].runsAtCorrection
    ELSE j > LastCorrected /\ hist[j].runs > 0

\* C10: in a sequential batch, once the user has given a corrected model at
\* task i, the re-run of task i and the runs of the later tasks use it
\* (until a later correction), and the result.json they write records it
C10_CorrectedModelPropagates ==
    mode = "sequential" =>
        /\ \A j \in TaskIds : agent[j].pc # "idle" => agent[j].modelStr = sched.currentModel
        /\ Corrected = {} => sched.currentModel = model
        /\ Corrected # {} =>
            LET m == hist[LastCorrected].corrected IN
            /\ sched.currentModel = m
            /\ \A j \in TaskIds : RanSinceCorrection(j) =>
                  /\ hist[j].lastModel = m
                  /\ agent[j].pc = "idle" /\ Exists(disk, hist[j].lastFolder)
                        => /\ disk[hist[j].lastFolder].result # None
                           /\ disk[hist[j].lastFolder].result[1].Model = m

\* the batch is over; task 0 was corrected to a model other than the
\* starting one, and task 1 has run and its result.json records that model
C10_Witness ==
    /\ mode = "sequential" /\ sched.pc = "done" /\ NumTasks >= 2
    /\ Corrected = {0} /\ hist[0].corrected # model
    /\ hist[1].runs > 0 /\ Exists(disk, results[1].Folder)
    /\ disk[results[1].Folder].result[1].Model = hist[0].corrected
    /\ disk[results[0].Folder].result[1].Model = hist[0].corrected

(***************************************************************************)
(* Properties of waitForCompletion.                                        *)
(***************************************************************************)
\* C2 as claimed: a line carrying a server.* event does not refresh
\* lastActivity, that is, lastActivity is always the time of the last
\* non-blank line that carried no server.* event (or of the call)
C2_HeartbeatKeepsLastActivity ==
    trk.lastActivity = trk.lastOther

\* C3 as claimed: once the watcher has found the inactivity timeout passed,
\* recorded it and closed done, with the reader waiting in Scan and no
\* terminal event seen, waitForCompletion eventually returns
\* (false, "no agent activity for <N>s")
C3_TimeoutReturns ==
    (trk.fired /\ trk.wpc = "exited" /\ trk.pc = "scan"
        /\ ~trk.completed /\ trk.handled = None)
        ~> (trk.pc = "returned"
            /\ trk.verdict = Verdict(FALSE, TimeoutMessage(inactivityTimeout)))

\* C4 as claimed: when the reader has handled a session.error event of the
\* adopted session, the verdict is (false, m), m the message of that event
C4_SessionErrorVerbatim ==
    trk.pc = "returned" /\ trk.handled # None
        => trk.verdict = Verdict(FALSE, trk.handled[1])

\* C5 as claimed: an attempt that ends on a session.error event of the
\* adopted session fails and is not retried, although attempts remain
C5_SessionErrorFatal ==
    trk.pc = "returned" /\ trk.handled # None
        => LET r == ComposeResult(ZeroResult, trk.verdict.completed, trk.verdict.errMsg) IN
           /\ ~r.Success
           /\ ReturnsAfter(r, 1, MaxAttempts(transientRetries))

(***************************************************************************)
(* Properties of a batch (continued).                                      *)
(***************************************************************************)
\* the tasks at which the user declined the correction prompt (aborted the
\* form or gave an empty model)
Declined == {i \in TaskIds : hist[i].prompts > 0 /\ hist[i].corrected = <<>>}

\* C11: in a sequential batch, once the user has declined the correction
\* prompt at task i, no run of runAgent is started any more, the tasks
\* after i have never run, results[i] is the model-not-found failure of
\* task i, every earlier result is the one its task returned, and the
\* results never change again
C11_DeclineAbandonsRest ==
    /\ [](\A i \in Declined :
            /\ mode = "sequential" /\ sched.pc = "done"
            /\ \A j \in TaskIds : agent[j].pc = "idle" /\ retry[j].pc = "idle"
            /\ \A j \in TaskIds : j > i => hist[j].runs = 0 /\ results[j] = ZeroResult
            /\ \A j \in TaskIds : j <= i => results[j] = hist[j].lastResult
            /\ ~results[i].Success /\ isModelNotFoundError(results[i].Error)[1])
    /\ [][Declined # {} =>
            /\ results' = results
            /\ \A j \in TaskIds : hist'[j].runs = hist[j].runs]_vars

\* the user declined at task 0 of a batch of two tasks: task 1 never ran
C11_Witness ==
    /\ 0 \in Declined /\ NumTasks = 2 /\ sched.pc = "done"
    /\ hist[0].runs > 0 /\ hist[1].runs = 0

\* C12 as claimed: the results a batch returns have one entry per task, and
\* results[i].Folder is the input folder of task i or a folder made for it
\* by createTimestampFolder
C12_ResultFolders ==
    sched.pc = "done" =>
        /\ DOMAIN results = DOMAIN tasks
        /\ \A i \in TaskIds :
              results[i].Folder = tasks[i].Folder \/ results[i].Folder \in hist[i].named

\* the tasks of a parallel batch whose goroutine has stored a
\* model-not-found failure
ParModelNotFound ==
    {i \in TaskIds : /\ mode = "parallel" /\ gor[i] = "done"
                     /\ ~results[i].Success
                     /\ isModelNotFoundError(results[i].Error)[1]}

\* C13 as claimed: in a parallel batch a task that fails with
\* model-not-found has made a single attempt
C13_SingleAttempt ==
    \A i \in ParModelNotFound : hist[i].runs = 1

\* C13: in a parallel batch the correction prompt is never shown and every
\* run uses the model of the batch; a task that fails with model-not-found
\* is not run again after that failure (its runs are those of the one
\* runAgentWithRetry call, the last of them the model-not-found failure),
\* and the result.json of its folder records the failure and the model
C13_NoCorrectionInParallel ==
    mode = "parallel" =>
        /\ sched.currentModel = model
        /\ \A i \in TaskIds :
              /\ hist[i].prompts = 0 /\ hist[i].corrected = <<>>
              /\ agent[i].pc # "idle" => agent[i].modelStr = model
              /\ hist[i].runs > 0 => hist[i].lastModel = model
        /\ \A i \in ParModelNotFound :
              /\ hist[i].runs = hist[i].callRuns
              /\ hist[i].runs <= MaxAttempts(transientRetries)
              /\ hist[i].lastResult = results[i]
              /\ agent[i].pc = "idle" /\ retry[i].pc = "idle"
              /\ Exists(disk, results[i].Folder)
              /\ disk[results[i].Folder].result =
                    Some(ResultFile(results[i], model))

\* a parallel batch of two tasks has returned, both tasks failed with
\* model-not-found at their only attempt
C13_Witness ==
    /\ mode = "parallel" /\ sched.pc = "done" /\ NumTasks = 2
    /\ ParModelNotFound = TaskIds
    /\ \A i \in TaskIds : hist[i].runs = 1 /\ ~disk[results[i].Folder].result[1].Success

\* C14: a daemon child that is alive belongs to the run of runAgent that is
\* in progress for its task, after the start of the daemon: when runAgent
\* has returned, whatever the path, the child it started is dead
C14_ChildKilledOnReturn ==
    \A c \in children :
        /\ agent[c.task].pc \in {"session", "subscribe", "prompt", "wait"}
        /\ c.run = hist[c.task].runs
        /\ c.port = agent[c.task].port

\* an attempt that started its daemon has returned, and no child is alive
C14_Witness ==
    /\ children = {}
    /\ \E i \in TaskIds :
          /\ agent[i].pc = "idle"
          /\ Occurs(hist[i].trace, "start") /\ Occurs(hist[i].trace, "return")

\* the tasks whose last run of runAgent has returned
Returned == {i \in TaskIds : agent[i].pc = "idle" /\ Occurs(hist[i].trace, "return")}

\* the folder of the last run of task i holds a result.json with the
\* success, error and model of that run
ResultSaved(i) ==
    /\ Exists(disk, hist[i].lastFolder)
    /\ disk[hist[i].lastFolder].result = Some(ResultFile(hist[i].lastResult, hist[i].lastModel))

\* C15 as claimed: when runAgent has returned, on whatever path, the eval
\* folder holds a result.json with the success, error and model of the
\* returned result
C15_ResultSavedOnReturn ==
    \A i \in Returned : hist[i].lastResult.Folder = hist[i].lastFolder /\ ResultSaved(i)

(***************************************************************************)
(* Properties of waitForCompletion (continued).                            *)
(***************************************************************************)
\* C16: done is never closed twice, it has been closed (once) whenever
\* waitForCompletion has returned, and once it is closed the watcher exits
C16_DoneClosedOnce ==
    /\ [](trk.closes <= 1 /\ (trk.doneClosed <=> trk.closes = 1))
    /\ [](trk.pc = "returned" => trk.closes = 1)
    /\ (trk.doneClosed ~> trk.wpc = "exited")

\* both goroutines have called closeDone (the watcher after its timeout,
\* the reader after a session.error), the call has returned and the watcher
\* has exited
C16_Witness ==
    /\ trk.pc = "returned" /\ trk.wpc = "exited"
    /\ trk.fired /\ trk.handled # None /\ trk.closes = 1

\* an idle event of the adopted session: session.idle, or session.status
\* with status.type "idle", whose sessionID is absent or the adopted one
IdleEvent(line, sessionID) ==
    /\ line.kind = "event"
    /\ \/ line.type = SessionIdle
       \/ line.type = SessionStatus /\ line.status = Some("idle")
    /\ line.sid = None \/ line.sid = Some(sessionID)

ComposedSuccess(v) == v.completed /\ v.errMsg = <<>>
ComposedError(v) ==
    IF v.errMsg # <<>> THEN v.errMsg
    ELSE IF ~v.completed THEN NoIdleMessage
    ELSE <<>>

\* verdicts beyond those of a batch: every flag with every message
AnyVerdicts ==
    {Verdict(c, e) : c \in BOOLEAN,
                     e \in {<<>>, <<"boom">>, NoIdleMessage, ModelNotFoundMessage,
                            TimeoutMessage(inactivityTimeout), StreamErrorMessage(ScanError)}}

\* C19: a run of runAgent that got a verdict from waitForCompletion returns
\* success = (completed and errMsg empty) and error = errMsg, or "agent did
\* not reach idle state" when errMsg is empty and completed false, or ""
\* on success; prompt, prompt number and folder are those of the run
C19_ResultFromVerdict ==
    /\ \A v \in AnyVerdicts :
          LET base == [ZeroResult EXCEPT !.Folder = <<"f">>]
              r == ComposeResult(base, v.completed, v.errMsg) IN
          /\ r.Success = ComposedSuccess(v) /\ r.Error = ComposedError(v)
          /\ r.Folder = base.Folder /\ r.Prompt = base.Prompt
          /\ r.PromptNumber = base.PromptNumber
    /\ \A i \in Returned :
          hist[i].lastVerdict # None =>
              /\ hist[i].lastResult.Success = ComposedSuccess(hist[i].lastVerdict[1])
              /\ hist[i].lastResult.Error = ComposedError(hist[i].lastVerdict[1])
              /\ hist[i].lastResult.Folder = hist[i].lastFolder

\* a run has returned after the verdict (false, ""), with the error
\* "agent did not reach idle state"
C19_Witness ==
    \E i \in Returned :
        /\ hist[i].lastVerdict = Some(Verdict(FALSE, <<>>))
        /\ hist[i].lastResult.Error = NoIdleMessage /\ ~hist[i].lastResult.Success

\* strings.Contains(msg, f) for one of the fragments fs
ContainsOneOf(msg, fs) == \E f \in fs : Contains(msg, f)

\* C20 as claimed: isTransientEvalError(msg) is true exactly when msg
\* contains "no agent activity for ", "event stream error: " (each with its
\* final blank) or "agent did not reach idle state"
C20_TransientExactly ==
    call.pc = "returned" =>
        (call.ret <=> ContainsOneOf(call.arg, {NoActivityFragment \o <<" ">>,
                                               StreamErrorFragment \o <<" ">>,
                                               NoIdleMessage}))

\* C20: isTransientEvalError(msg) is true exactly when msg contains
\* "no agent activity for", "event stream error:" (without a final blank) or
\* "agent did not reach idle state"; it is false for the empty message and
\* for "Failed to send prompt: HTTP 401", true for the messages the engine
\* makes with the three fragments
C20_TransientFragments ==
    call.pc = "returned" =>
        /\ call.ret <=> ContainsOneOf(call.arg, {NoActivityFragment, StreamErrorFragment,
                                                 NoIdleMessage})
        /\ call.arg = <<>> => ~call.ret
        /\ call.arg = <<"Failed to send prompt: HTTP 401">> => ~call.ret
        /\ call.arg \in {NoActivityFragment \o <<" ", "180s">>,
                          StreamErrorMessage(<<"180s">>), NoIdleMessage} => call.ret

\* a message with "event stream error:" and no blank after it was classed
\* transient
C20_Witness ==
    /\ call.pc = "returned" /\ call.ret
    /\ call.arg = <<"event stream error:", "180s">>


(***************************************************************************)
(* Properties of the results list of a parallel batch.                     *)
(***************************************************************************)
\* the slots of results a step writes
Written == {j \in TaskIds : results'[j] # results[j]}

\* C21: in a parallel batch at most one goroutine holds resultMutex; a
\* step that writes results is the store of one goroutine i that holds the
\* mutex, writes slot i and no other slot, and puts there the result its
\* call of runAgentWithRetry returned; a goroutine that has not stored has
\* left its slot untouched, one that has stored never writes again; and
\* when runAllEvalsParallel returns every goroutine has stored, so that
\* results[i] is the result of task i's last attempt, for every i
C21_OwnSlotUnderMutex ==
    /\ [](mode = "parallel" =>
            /\ Cardinality({j \in TaskIds : gor[j] = "locked"}) <= 1
            /\ \A i \in TaskIds :
                /\ gor[i] # "done" => results[i] = ZeroResult
                /\ gor[i] = "done" => /\ hist[i].runs >= 1
                                      /\ results[i] = hist[i].lastResult
                                      /\ retry[i].pc = "idle" /\ agent[i].pc = "idle"
            /\ sched.pc = "done" => \A i \in TaskIds : gor[i] = "done")
    /\ [][mode = "parallel" =>
            \A i \in Written :
                /\ Written = {i}
                /\ gor[i] = "locked" /\ gor'[i] = "done"
                /\ results'[i] = retry[i].result
                /\ retry[i].result = hist[i].lastResult]_vars

\* a parallel batch of two tasks has returned, one task succeeded and the
\* other failed
C21_Witness ==
    /\ mode = "parallel" /\ sched.pc = "done" /\ NumTasks = 2
    /\ results[0].Success /\ ~results[1].Success
    /\ results[1].Error # <<>>



(***************************************************************************)
(* Ports of the daemons.                                                   *)
(***************************************************************************)
\* C22: every daemon a batch starts for task i listens on basePort + i
\* (4096 + i), whatever the attempt, and no two daemons that are started
\* and not yet killed share a port, in parallel and in sequential batches
C22_PortsDistinct ==
    /\ [](\A c \in children :
            /\ c.port = 4096 + c.task
            /\ \A d \in children : d.port = c.port => d = c)
    /\ [][\A c \in children' \ children :
            /\ c.port = basePort + c.task
            /\ c.run = hist[c.task].runs
            /\ agent'[c.task].port = c.port
            /\ children' = children \cup {c}]_vars

\* two daemons are alive in a parallel batch, the one of task 1 started by
\* a second attempt
C22_Witness ==
    /\ mode = "parallel"
    /\ \E c, d \in children : c.task = 0 /\ d.task = 1 /\ d.run = 2

\* a daemon is alive that a re-run after a model correction started
C22_WitnessRerun ==
    /\ mode = "sequential"
    /\ \E c \in children : /\ c.task = 1
                           /\ hist[1].corrected # <<>>
                           /\ c.run > hist[1].runsAtCorrection



(***************************************************************************)
(* Order of a sequential batch.                                            *)
(***************************************************************************)
\* the tasks whose Driver (runAgent) or retry loop is active
ActiveDrivers == {j \in TaskIds : agent[j].pc # "idle"}
ActiveCalls == {j \in TaskIds : retry[j].pc # "idle"}

\* C23: in a sequential batch the loop index never goes back and moves one
\* task at a time; only the task at the loop index has an active Driver or
\* retry loop, so at most one Driver is active; the tasks after the loop
\* index have not run and the tasks before it have returned from their
\* last attempt; and no step, a model correction included, runs a task
\* before the loop index again or changes its result, its result.json or
\* its folder
C23_SequentialOrder ==
    /\ [](mode = "sequential" =>
            /\ Cardinality(ActiveDrivers) <= 1
            /\ ActiveDrivers \subseteq ActiveCalls
            /\ ActiveCalls \subseteq {sched.i}
            /\ sched.pc = "call" => hist[sched.i].runs = 0
            /\ \A j \in TaskIds :
                /\ j > sched.i => hist[j].runs = 0 /\ results[j] = ZeroResult
                /\ j < sched.i => /\ hist[j].runs >= 1
                                  /\ results[j] = hist[j].lastResult)
    /\ [][mode = "sequential" =>
            /\ sched'.i \in {sched.i, sched.i + 1}
            /\ \A j \in TaskIds : j < sched.i =>
                /\ hist'[j] = hist[j]
                /\ results'[j] = results[j]
                /\ Exists(disk, hist[j].lastFolder)
                      => /\ Exists(disk', hist[j].lastFolder)
                         /\ disk'[hist[j].lastFolder] = disk[hist[j].lastFolder]]_vars

\* a sequential batch of two tasks is over; task 0 ran, task 1 was
\* corrected and run again with the corrected model
C23_Witness ==
    /\ mode = "sequential" /\ sched.pc = "done" /\ sched.i = 2
    /\ hist[0].runs >= 1 /\ hist[0].corrected = <<>>
    /\ hist[1].corrected # <<>> /\ hist[1].runs > hist[1].runsAtCorrection
    /\ results[0] = hist[0].lastResult



(***************************************************************************)
(* Properties of the functions of model identifiers.                       *)
(***************************************************************************)
\* the characters the sanitization keeps
KeptChars == LowerAlpha \cup Digit \cup {".", "_", "-"}

\* s with every maximal run of characters outside KeptChars replaced by one "-"
CoalesceRuns(s) ==
    LET first == {k \in 1..Len(s) : s[k] \in KeptChars \/ k = 1 \/ s[k - 1] \in KeptChars}
        Pick(k) == CHOOSE p \in first : Cardinality({q \in first : q <= p}) = k
    IN [k \in 1..Cardinality(first) |->
            IF s[Pick(k)] \in KeptChars THEN s[Pick(k)] ELSE "-"]

\* the sanitization as described: lowercase, keep [a-z0-9._-], coalesce
\* the other runs, trim "-_.", truncate to 64 and trim again,
\* "unknown-model" when nothing remains
DescribedSanitize(m) ==
    LET trimmed == Trim(CoalesceRuns(ToLower(m)), {"-", "_", "."})
        cut == Trim(SubSeq(trimmed, 1, IF Len(trimmed) > 64 THEN 64 ELSE Len(trimmed)),
                    {"-", "_", "."})
    IN IF cut = <<>> THEN UnknownModel ELSE cut

SanitizeReturned == call.fn = "sanitizeModelForFolder" /\ call.pc = "returned"

\* C24 as stated: sanitizeModelForFolder(m) is the described sanitization
\* of m itself
C24_SanitizeAsDescribed ==
    SanitizeReturned => call.ret = DescribedSanitize(call.arg)

\* C24, amended: sanitizeModelForFolder(m) is the described sanitization of
\* normalizeModelID(TrimSpace(m)): an identifier without "/" is sanitized
\* with the prefix openrouter/
C24_SanitizeNormalized ==
    SanitizeReturned => call.ret = DescribedSanitize(normalizeModelID(TrimSpace(call.arg)))

\* an identifier of more than 64 characters with upper-case letters, a run
\* of other characters and a cut that ends in a character of the cut set
\* has been sanitized
C24_Witness ==
    /\ SanitizeReturned
    /\ Len(call.arg) > 64
    /\ Len(call.ret) < 64
    /\ call.arg[Len(call.arg)] = "A"
    /\ call.arg[Len(call.arg) - 1] = ":"



HasSlash(m) == \E k \in 1..Len(m) : m[k] = "/"
Openrouter == <<"o","p","e","n","r","o","u","t","e","r">>

\* C29: normalizeModelID maps "" to "", leaves an identifier with "/"
\* unchanged and prefixes every other one with "openrouter/"; parseModel
\* splits at the first "/" into provider and model and gives provider
\* "openrouter" and the whole string as model when there is no "/"; and
\* parsing a normalized non-empty identifier gives what parsing the
\* identifier itself gives
C29_NormalizeAndParse ==
    /\ call.fn = "normalizeModelID" /\ call.pc = "returned" =>
        /\ call.arg = <<>> => call.ret = <<>>
        /\ HasSlash(call.arg) => call.ret = call.arg
        /\ call.arg # <<>> /\ ~HasSlash(call.arg)
              => call.ret = Openrouter \o <<"/">> \o call.arg
        /\ call.arg # <<>> => parseModel(call.ret) = parseModel(call.arg)
    /\ call.fn = "parseModel" /\ call.pc = "returned" =>
        /\ HasSlash(call.arg) => /\ ~HasSlash(call.ret[1])
                                 /\ call.ret[1] \o <<"/">> \o call.ret[2] = call.arg
        /\ ~HasSlash(call.arg) => call.ret = <<Openrouter, call.arg>>

\* an identifier without "/" has been normalized: it got the prefix
C29_Witness ==
    /\ call.fn = "normalizeModelID" /\ call.pc = "returned"
    /\ call.arg # <<>> /\ ~HasSlash(call.arg)
    /\ Len(call.ret) = Len(call.arg) + 11
    /\ parseModel(call.ret) = <<Openrouter, call.arg>>



(***************************************************************************)
(* Properties of scanEvalFolders.                                          *)
(***************************************************************************)
\* the number of the leftmost marker p<N> of name whose left and right
\* neighbours satisfy Left and Right (0 when there is none); a marker
\* starts at the "p" at position i and ends at the digit at position j
MarkerNumber(name, Left(_, _), Right(_, _)) ==
    LET marks == {ij \in (1..Len(name)) \X (1..Len(name)) :
                    /\ ij[1] < ij[2]
                    /\ name[ij[1]] = "p"
                    /\ \A k \in (ij[1] + 1)..ij[2] : name[k] \in Digit
                    /\ Left(name, ij[1]) /\ Right(name, ij[2])}
    IN IF marks = {} THEN 0
       ELSE LET m == CHOOSE a \in marks : \A b \in marks : a[1] <= b[1]
            IN Atoi(SubSeq(name, m[1] + 1, m[2]))

UnderscoreLeft(name, i) == i > 1 /\ name[i - 1] = "_"
UnderscoreRight(name, j) == j < Len(name) /\ name[j + 1] = "_"
UnderscoreOrStart(name, i) == i = 1 \/ name[i - 1] = "_"
UnderscoreOrEnd(name, j) == j = Len(name) \/ name[j + 1] = "_"

\* the 1-based position of the first prompt of the list that equals text
\* (0 when there is none)
FirstPosition(list, text) ==
    IF \E k \in 1..Len(list) : list[k] = text
    THEN CHOOSE k \in 1..Len(list) :
            list[k] = text /\ \A j \in 1..(k - 1) : list[j] # text
    ELSE 0

\* the first positive number of a sequence of numbers, 0 when none is
FirstPositive(ns) ==
    IF \E k \in 1..Len(ns) : ns[k] > 0
    THEN ns[CHOOSE k \in 1..Len(ns) : ns[k] > 0 /\ \A j \in 1..(k - 1) : ns[j] <= 0]
    ELSE 0

\* the entry of the listing a returned folder was made of
EntryOf(folder) ==
    CHOOSE e \in {call.arg.entries[k] : k \in 1..Len(call.arg.entries)} :
        <<"e","v","a","l","s","/">> \o e.Name = folder.Path

StoredNumber(e) ==
    IF e.resultJSON # None /\ e.resultJSON[1].ok THEN e.resultJSON[1].PromptNumber ELSE 0

ScanReturned == call.fn = "scanEvalFolders" /\ call.pc = "returned"

\* the eval folders of the listing: the directories that hold prompt.txt
EvalFolderNames ==
    {call.arg.entries[k].Name : k \in {j \in 1..Len(call.arg.entries) :
        call.arg.entries[j].IsDir /\ call.arg.entries[j].promptTxt # None}}

PinnedFront(L, R, InS(_)) ==
    /\ Len(R) = Len(L)
    /\ \E f \in [1..Len(L) -> 1..Len(L)] :
        /\ \A i, j \in 1..Len(L) : f[i] = f[j] => i = j
        /\ \A k \in 1..Len(L) : R[k] = L[f[k]]
        /\ \A i, j \in 1..Len(L) :
              i < j /\ (InS(R[i]) <=> InS(R[j])) => f[i] < f[j]
    /\ \A i, j \in 1..Len(R) : i < j /\ InS(R[j]) => InS(R[i])

\* C26: pinSavedModels(L, S) is a permutation of L of the same length with
\* the elements of S before the others and the order of L kept inside both
\* groups; pinSavedModelIDs does the same for provider-local ids, an id
\* being in the group of S when provider/id is in S
C26_PinIsStablePartition ==
    /\ call.fn = "pinSavedModels" /\ call.pc = "returned" =>
          PinnedFront(call.arg.models, call.ret, LAMBDA m : m \in call.arg.savedSet)
    /\ call.fn = "pinSavedModelIDs" /\ call.pc = "returned" =>
          PinnedFront(call.arg.modelIDs, call.ret,
                      LAMBDA m : call.arg.providerID \o <<"/">> \o m \in call.arg.savedSet)

\* a list of an unsaved model followed by two different saved ones has
\* been pinned: the saved ones are in front, in their order
C26_Witness ==
    /\ call.fn = "pinSavedModels" /\ call.pc = "returned"
    /\ Len(call.arg.models) = 3
    /\ call.arg.models[1] \notin call.arg.savedSet
    /\ call.arg.models[2] \in call.arg.savedSet
    /\ call.arg.models[3] \in call.arg.savedSet
    /\ call.arg.models[2] # call.arg.models[3]
    /\ call.ret = <<call.arg.models[2], call.arg.models[3], call.arg.models[1]>>



\* the letters and digits of s, in lowercase
Alnum(s) == SelectSeq(ToLower(s), LAMBDA c : c \in LowerAlpha \cup Digit)

\* a occurs in b as a block of neighbouring characters
Substring(a, b) == \E i \in 0..(Len(b) - Len(a)) : SubSeq(b, i + 1, i + Len(a)) = a

\* a is b with some characters left out
Subsequence(a, b) ==
    \E pos \in [1..Len(a) -> 1..Len(b)] :
        /\ \A k \in 1..Len(a) : b[pos[k]] = a[k]
        /\ \A k \in 1..(Len(a) - 1) : pos[k] < pos[k + 1]

\* one of the three rules marked "matched" fires for candidate c and query q
MatchedRuleFires(c, q) ==
    \/ Substring(ToLower(q), ToLower(c))
    \/ Substring(Alnum(q), Alnum(c))
    \/ Subsequence(Alnum(q), Alnum(c))

FilterReturned ==
    /\ call.fn = "filterModels" /\ call.pc = "returned"
    /\ TrimSpace(call.arg.query) # <<>>

Elements(l) == {l[k] : k \in 1..Len(l)}

\* C27: for a non-blank query filterModels returns a candidate if and only
\* if the lowercase query is a substring of the lowercase candidate, the
\* normalized query is a substring of the normalized candidate, or the
\* normalized query is a subsequence of the normalized candidate
C27_MatchedIffThreeRules ==
    FilterReturned =>
        Elements(call.ret) =
            {c \in Elements(call.arg.models) : MatchedRuleFires(c, TrimSpace(call.arg.query))}



\* the tokens of query q: its maximal runs of letters and digits, in
\* lowercase, from left to right
TokenSpans(q) ==
    {ij \in (1..Len(q)) \X (1..Len(q)) :
        /\ ij[1] <= ij[2]
        /\ \A k \in ij[1]..ij[2] : IsLetterOrDigit(q[k])
        /\ ij[1] = 1 \/ ~IsLetterOrDigit(q[ij[1] - 1])
        /\ ij[2] = Len(q) \/ ~IsLetterOrDigit(q[ij[2] + 1])}

TokenAt(q, n) ==
    LET ij == CHOOSE a \in TokenSpans(q) :
                  Cardinality({b \in TokenSpans(q) : b[1] <= a[1]}) = n
    IN ToLower(SubSeq(q, ij[1], ij[2]))

DescribedTokens(q) == [n \in 1..Cardinality(TokenSpans(q)) |-> TokenAt(q, n)]

\* the tokens occur in c in their order, no occurrence overlapping the next
InOrderNoOverlap(toks, c) ==
    \E at \in [1..Len(toks) -> 0..Len(c)] :
        /\ \A k \in 1..Len(toks) :
              /\ at[k] + Len(toks[k]) <= Len(c)
              /\ SubSeq(c, at[k] + 1, at[k] + Len(toks[k])) = toks[k]
        /\ \A k \in 1..(Len(toks) - 1) : at[k] + Len(toks[k]) <= at[k + 1]

\* the score of candidate c for query q as described
DescribedScore(c, q) ==
    LET toks == DescribedTokens(q)
        found == {k \in 1..Len(toks) : Substring(toks[k], ToLower(c))}
        all == Cardinality(found) = Len(toks)
    IN (IF Substring(ToLower(q), ToLower(c)) THEN 140 ELSE 0)
       + (IF Substring(Alnum(q), Alnum(c)) THEN 120 ELSE 0)
       + (IF HasPrefix(Alnum(c), Alnum(q)) THEN 30 ELSE 0)
       + (IF Subsequence(Alnum(q), Alnum(c)) THEN 50 ELSE 0)
       + 20 * Cardinality(found)
       + (IF all THEN 40 ELSE 0)
       + (IF all /\ Len(toks) >= 2 /\ InOrderNoOverlap(toks, ToLower(c)) THEN 20 ELSE 0)

\* C28: for a non-blank query the list filterModels returns is in
\* descending order of the described score, candidates of equal score in
\* ascending order of their strings; and it holds each matching candidate
\* as often as the input list does
C28_OrderedByScore ==
    FilterReturned =>
        LET q == TrimSpace(call.arg.query) IN
        /\ \A i, j \in 1..Len(call.ret) : i < j =>
              \/ DescribedScore(call.ret[i], q) > DescribedScore(call.ret[j], q)
              \/ /\ DescribedScore(call.ret[i], q) = DescribedScore(call.ret[j], q)
                 /\ ~StringLess(call.ret[j], call.ret[i])
        /\ \A c \in Elements(call.ret) :
              Cardinality({k \in 1..Len(call.ret) : call.ret[k] = c})
                  = Cardinality({k \in 1..Len(call.arg.models) : call.arg.models[k] = c})

\* three different candidates are returned for the query "o g"; two of
\* them have the same score and were given in descending order of their
\* strings, the third has a lower score and was given first
C28_Witness ==
    /\ FilterReturned
    /\ call.arg.query = <<"o", " ", "g">>
    /\ call.arg.models = << <<"P","/","5","g">>, <<"o","/","g","m","5">>, <<"o","/","g","-","5">> >>
    /\ call.ret = << <<"o","/","g","-","5">>, <<"o","/","g","m","5">>, <<"P","/","5","g">> >>
    /\ DescribedScore(call.ret[1], call.arg.query) = DescribedScore(call.ret[2], call.arg.query)
    /\ DescribedScore(call.ret[2], call.arg.query) > DescribedScore(call.ret[3], call.arg.query)



(***************************************************************************)
(* Properties of applyRuntimeOptions.                                      *)
(***************************************************************************)
\* the duration d is exactly n seconds: d, as a number, is the product of
\* n and the nanoseconds of a second, computed on 16 bytes, where it fits
ExactlySeconds(d, n) == Extend(d, 16) = Mul(Extend(n, 16), Extend(Second, 16))

\* C30: after applyRuntimeOptions(t, r) the inactivity timeout is t seconds
\* when t >= 1 and 180 s when t < 1, the transient retries are r when
\* r >= 0 and 1 when r < 0; and after any sequence of calls the inactivity
\* timeout is at least 1 s and the retries are at least 0
C30_OptionsApplied ==
    /\ ~Less(inactivityTimeout, Second)
    /\ transientRetries >= 0
    /\ call.fn = "applyRuntimeOptions" =>
        LET t == call.arg.timeoutSeconds
            r == call.arg.retries
        IN /\ ~Less(t, Int64(1)) => ExactlySeconds(inactivityTimeout, t)
           /\ Less(t, Int64(1)) => ExactlySeconds(inactivityTimeout, Int64(180))
           /\ r >= 0 => transientRetries = r
           /\ r < 0 => transientRetries = 1

(***************************************************************************)
(* Properties of waitForCompletion (continued).                            *)
(***************************************************************************)
\* what runAgent makes of the verdict of the call (lines 2073-2078)
TrackedResult == ComposeResult(ZeroResult, trk.verdict.completed, trk.verdict.errMsg)

\* "event stream error: "
StreamErrorPrefix == StreamErrorFragment \o <<" ">>

\* C31 as claimed: when the loop has ended on the end of the stream with no
\* timeout set, the attempt fails with "agent did not reach idle state";
\* when it has ended on a read error and no error was recorded then, the
\* attempt fails with an error that begins with "event stream error: ";
\* both are transient and retried while attempts remain
C31_StreamEndOutcomes ==
    trk.pc = "returned" /\ trk.foundAtEnd # None =>
        /\ ~trk.scanErr /\ ~trk.fired =>
              /\ ~TrackedResult.Success
              /\ TrackedResult.Error = NoIdleMessage
              /\ ~ReturnsAfter(TrackedResult, 1, MaxAttempts(transientRetries))
        /\ trk.scanErr /\ trk.foundAtEnd = Some(<<>>) =>
              /\ ~TrackedResult.Success
              /\ HasPrefix(TrackedResult.Error, StreamErrorPrefix)
              /\ ~ReturnsAfter(TrackedResult, 1, MaxAttempts(transientRetries))

(***************************************************************************)
(* Properties of an attempt.                                               *)
(***************************************************************************)
\* the steps of the Driver in their order, and the failure of each of the
\* first four
DriverSteps == <<"start", "session", "subscribe", "post", "verdict">>
DriverFailures == <<"start failed", "not ready", "subscribe failed", "post failed">>

\* the steps of an attempt without its return
StepsOf(tr) ==
    IF tr # <<>> /\ tr[Len(tr)] = "return" THEN SubSeq(tr, 1, Len(tr) - 1) ELSE tr

\* the steps were taken in the order of DriverSteps, and a step that
\* failed, or the tracking, is the last step and is followed by the return
StepsInOrder(tr) ==
    LET steps == StepsOf(tr) IN
    \/ steps = <<"setup failed">> /\ tr # steps
    \/ /\ Len(steps) <= Len(DriverSteps)
       /\ \A k \in 1..Len(steps) :
            \/ steps[k] = DriverSteps[k] /\ (k = Len(DriverSteps) => tr # steps)
            \/ /\ k = Len(steps) /\ k <= Len(DriverFailures)
               /\ steps[k] = DriverFailures[k]
               /\ tr # steps

\* the attempt of task i ended on a prompt post the daemon answered with a
\* status outside 200..299
PostRefused(i) ==
    /\ Len(hist[i].trace) >= 2
    /\ hist[i].trace[Len(hist[i].trace) - 1] = "post failed"
    /\ hist[i].postAnswer # None
    /\ hist[i].postAnswer[1].err = <<>>

\* the session part of C32: an attempt that has come to the subscription
\* has adopted a non-empty session id, and a prompt post went to it
SessionAdopted(i) ==
    /\ agent[i].pc \in {"subscribe", "prompt", "wait"} => agent[i].session # <<>>
    /\ (\E k \in 1..Len(hist[i].trace) : PostIssued(hist[i].trace, k))
          => hist[i].postedTo # <<>>
    /\ agent[i].pc = "wait" => hist[i].postedTo = agent[i].session

\* C32 as claimed: the steps of every attempt are in the order start,
\* session, subscribe, post, tracking, and a step that fails is the last;
\* subscription and post need an adopted non-empty session id and the post
\* goes to that session; after a prompt post answered with a non-2xx status
\* there is no tracking and the error of the attempt is the response body
C32_StepsInOrderBodyIsError ==
    \A i \in TaskIds :
        /\ StepsInOrder(hist[i].trace)
        /\ SessionAdopted(i)
        /\ PostRefused(i) =>
              /\ hist[i].lastVerdict = None
              /\ hist[i].lastResult.Error = hist[i].postAnswer[1].body

\* the error runAgent reports for a refused prompt post: the status and the
\* first 1024 bytes of the body, trimmed of surrounding whitespace
DescribedPostError(resp) ==
    <<"Failed to send prompt: ", "HTTP ">> \o Decimal(resp.status) \o <<": ">>
        \o Trim(SubSeq(resp.body, 1, IF Len(resp.body) > 1024 THEN 1024 ELSE Len(resp.body)),
                {" ", "\t", "\n", "\r"})

\* C32, amended: as C32, but the error of an attempt whose prompt post was
\* answered with a non-2xx status is "Failed to send prompt: HTTP <status>:
\* <body>", the body cut to its first 1024 bytes and trimmed
C32_StepsInOrder ==
    \A i \in TaskIds :
        /\ StepsInOrder(hist[i].trace)
        /\ SessionAdopted(i)
        /\ PostRefused(i) =>
              /\ hist[i].lastVerdict = None
              /\ ~hist[i].lastResult.Success
              /\ hist[i].lastResult.Error = DescribedPostError(hist[i].postAnswer[1])

\* an attempt has ended on a prompt post that the daemon refused with a
\* body of more than 1024 bytes, after the session was adopted and the
\* stream subscribed
C32_Witness ==
    \E i \in TaskIds :
        /\ PostRefused(i)
        /\ hist[i].trace = <<"start", "session", "subscribe", "post failed", "return">>
        /\ hist[i].postedTo = <<"ses_1">>
        /\ Len(hist[i].postAnswer[1].body) > 1024
        /\ Len(hist[i].lastResult.Error) < 1024 + 6

(***************************************************************************)
(* Properties of the session.error case.                                   *)
(***************************************************************************)
\* the members of an error value that are strings, in the order of
\* precedence: data.message, message, name, the value itself
StringMembers(v) ==
    (IF v.kind = "object" /\ v.dataMessage.isString THEN <<v.dataMessage.s>> ELSE <<>>)
    \o (IF v.kind = "object" /\ v.message.isString THEN <<v.message.s>> ELSE <<>>)
    \o (IF v.kind = "object" /\ v.name.isString THEN <<v.name.s>> ELSE <<>>)
    \o (IF v.kind = "string" THEN <<v.text>> ELSE <<>>)

\* the message of a session.error event as described
DescribedErrorMessage(line) ==
    IF line.error = None THEN <<"unknown session error">>
    ELSE IF StringMembers(line.error[1]) # <<>> THEN Head(StringMembers(line.error[1]))
    ELSE line.error[1].text

\* the reader has handled a session.error event of the session and has not
\* returned yet
ErrorHandled == trk.pc \in {"closeError", "readError"} /\ trk.handled # None

\* C33: the message taken from a session.error event is error.data.message
\* when that is a string, else error.message, else error.name, else the
\* error value itself when it is a string, else the stringified value; and
\* "unknown session error" when the event has no error field
C33_ErrorMessagePrecedence ==
    ErrorHandled => trk.handled[1] = DescribedErrorMessage(trk.line)

\* a session.error event whose error has no data.message, but a message and
\* a name that are strings and differ, has been handled
C33_Witness ==
    /\ ErrorHandled
    /\ trk.line.error # None
    /\ trk.line.error[1].kind = "object"
    /\ ~trk.line.error[1].dataMessage.isString
    /\ trk.line.error[1].message.isString /\ trk.line.error[1].name.isString
    /\ trk.line.error[1].message.s # trk.line.error[1].name.s
    /\ trk.handled = Some(trk.line.error[1].message.s)

(***************************************************************************)
(* Properties of isModelNotFoundError.                                     *)
(***************************************************************************)
\* the text of msg after the first "Did you mean: "
AfterDidYouMean(msg) ==
    LET at == CHOOSE k \in 1..Len(msg) :
                  msg[k] = "Did you mean: " /\ \A j \in 1..(k - 1) : msg[j] # "Did you mean: "
    IN SubSeq(msg, at + 1, Len(msg))

\* s without one final question mark
WithoutFinalMark(s) ==
    IF s # <<>> /\ s[Len(s)] = "?" THEN SubSeq(s, 1, Len(s) - 1) ELSE s

\* the pieces of s between the separators that begin at the positions
\* seps and are width characters wide, each trimmed of whitespace
TrimmedPieces(s, seps, width) ==
    LET Nth(j) == CHOOSE p \in seps : Cardinality({q \in seps : q <= p}) = j
        n == Cardinality(seps)
    IN [j \in 1..(n + 1) |->
            Trim(SubSeq(s, IF j = 1 THEN 1 ELSE Nth(j - 1) + width,
                           IF j = n + 1 THEN Len(s) ELSE Nth(j) - 1),
                 {" ", "\t", "\n", "\r"})]

\* the items of s separated by commas, trimmed
CommaItems(s) == TrimmedPieces(s, {k \in 1..Len(s) : s[k] = ","}, 1)

\* the items of s separated by a comma and a blank, trimmed
CommaBlankItems(s) ==
    TrimmedPieces(s, {k \in 1..(Len(s) - 1) : s[k] = "," /\ s[k + 1] = " "}, 2)

HasDidYouMean(msg) == \E k \in 1..Len(msg) : msg[k] = "Did you mean: "
HasModelNotFound(msg) == \E k \in 1..Len(msg) : msg[k] = "Model not found"

ModelNotFoundReturned == call.fn = "isModelNotFoundError" /\ call.pc = "returned"

\* C34 as claimed: isModelNotFoundError(msg) reports model-not-found exactly
\* when msg contains "Model not found"; when msg contains "Did you mean: "
\* the suggestions are the comma-separated items after it, trimmed and
\* without the final question mark, and there are none otherwise
C34_SuggestionsCommaSeparated ==
    ModelNotFoundReturned =>
        /\ call.ret[1] <=> HasModelNotFound(call.arg)
        /\ HasDidYouMean(call.arg) =>
              call.ret[2] = CommaItems(WithoutFinalMark(AfterDidYouMean(call.arg)))
        /\ ~HasDidYouMean(call.arg) => call.ret[2] = <<>>

\* C34, amended: isModelNotFoundError(msg) reports model-not-found exactly
\* when msg contains "Model not found"; when it does and msg contains
\* "Did you mean: ", the suggestions are the pieces of the text after the
\* first "Did you mean: ", less a question mark that ends the message,
\* separated by ", " and trimmed; there are no suggestions otherwise
C34_SuggestionsOfModelNotFound ==
    ModelNotFoundReturned =>
        /\ call.ret[1] <=> HasModelNotFound(call.arg)
        /\ HasModelNotFound(call.arg) /\ HasDidYouMean(call.arg) =>
              call.ret[2] = CommaBlankItems(WithoutFinalMark(AfterDidYouMean(call.arg)))
        /\ ~(HasModelNotFound(call.arg) /\ HasDidYouMean(call.arg)) => call.ret[2] = <<>>

\* a model-not-found message with two suggestions and the final question
\* mark has been classified
C34_Witness ==
    /\ ModelNotFoundReturned
    /\ call.arg = <<"Model not found", ": x. ", "Did you mean: ", "a", ",", " ", "a", "?">>
    /\ call.ret = <<TRUE, << <<"a">>, <<"a">> >> >>

(***************************************************************************)
(* Properties of resumeCommand.                                            *)
(***************************************************************************)
\* the model stored in result.json of the k-th selected eval, <<>> when the
\* folder has no result.json or the file names no model
StoredModel(k) ==
    IF call.selected[k].Result = None THEN <<>> ELSE call.selected[k].Result[1].Model

\* C35 as claimed: when the model selection was left empty, each selected
\* eval is run with the model stored in its own result.json, and with the
\* default model when its folder stores none
C35_ResumeKeepsStoredModel ==
    call.fn = "resumeCommand" /\ call.selection = <<>> =>
        \A k \in 1..Len(call.ranWith) :
            call.ranWith[k] = IF StoredModel(k) # <<>> THEN StoredModel(k) ELSE DefaultModel

(***************************************************************************)
(* Properties of folder names.                                             *)
(***************************************************************************)
\* name has a marker p<N> whose neighbours satisfy Left and Right
HasMarker(name, Left(_, _), Right(_, _)) ==
    \E i \in 1..Len(name), j \in 1..Len(name) :
        /\ i < j
        /\ name[i] = "p"
        /\ \A k \in (i + 1)..j : name[k] \in Digit
        /\ Left(name, i) /\ Right(name, j)

\* the prompt number was recovered from a folder made by createTimestampFolder
RoundTripDone == call.fn = "createTimestampFolder" /\ call.pc = "returned"

\* the round trip of C36: the folder of prompt number n >= 1 parses to n,
\* the folder of n < 1 carries p0 and parses to 0
RoundTrip ==
    RoundTripDone =>
        /\ call.promptNumber >= 1 => call.ret = call.promptNumber
        /\ call.promptNumber < 1 =>
              /\ Contains(call.folder, <<"_", "p", "0", "_">>)
              /\ call.ret = 0

NameParsed == call.fn = "parsePromptNumberFromFolder" /\ call.pc = "returned"

\* C36 as claimed: the round trip, and a folder name without a marker
\* _p<N>_ (an underscore on either side) parses to 0
C36_RoundTripUnderscoreMarker ==
    /\ RoundTrip
    /\ NameParsed /\ ~HasMarker(call.folder, UnderscoreLeft, UnderscoreRight)
          => call.ret = 0

\* C36, amended: the round trip, and a folder name without a marker p<N>
\* that has an underscore or the start of the name on its left and an
\* underscore or the end of the name on its right parses to 0
C36_RoundTripAnchoredMarker ==
    /\ RoundTrip
    /\ NameParsed /\ ~HasMarker(call.folder, UnderscoreOrStart, UnderscoreOrEnd)
          => call.ret = 0

\* the prompt number 7 was recovered from a folder whose model part ends
\* in a second marker, _p5
C36_Witness ==
    /\ RoundTripDone
    /\ call.promptNumber = 7 /\ call.ret = 7 /\ call.index = 12
    /\ call.model = <<"_", "p", "5">>
    /\ SubSeq(call.folder, Len(call.folder) - 2, Len(call.folder)) = <<"_", "p", "5">>

(***************************************************************************)
(* Properties of the files of an eval folder.                              *)
(***************************************************************************)
\* what a step does to the folder of a run of task i in an existing folder
\* (a run that is in progress before the step or is begun by it):
\* prompt.txt and package.json stay as they are, and result.json changes
\* only when the run returns, to the file of the returned result
ExistingFolderStep(i) ==
    LET a == IF agent[i].pc # "idle" THEN agent[i] ELSE agent'[i]
        f == a.existingFolder
    IN
    a.pc # "idle" /\ f # <<>> =>
        /\ Exists(disk, f) /\ Exists(disk', f)
        /\ disk'[f].prompt = disk[f].prompt
        /\ disk'[f].package = disk[f].package
        /\ IF agent[i].pc # "idle" /\ agent'[i].pc = "idle"
           THEN disk'[f].result = Some(ResultFile(hist'[i].lastResult, a.modelStr))
           ELSE disk'[f].result = disk[f].result

\* C37: a run of runAgent in an existing folder (a resume, or a retry in
\* the same folder) neither creates nor rewrites prompt.txt or package.json
\* there; the only file of the folder it writes is result.json, which is
\* overwritten with the run's result when the run returns
C37_ExistingFolderKept == [][\A i \in TaskIds : ExistingFolderStep(i)]_vars

\* a resumed task succeeded in its old folder: the package.json the earlier
\* run left is still there and result.json holds the success
C37_Witness ==
    \E i \in TaskIds :
        /\ tasks[i].Folder # <<>>
        /\ agent[i].pc = "idle" /\ Occurs(hist[i].trace, "return")
        /\ hist[i].lastFolder = tasks[i].Folder
        /\ hist[i].lastResult.Success
        /\ disk[tasks[i].Folder].package = Some(EditedPackageJSON(tasks[i].Folder))
        /\ disk[tasks[i].Folder].prompt = Some(tasks[i].Prompt)
        /\ disk[tasks[i].Folder].result
              = Some(ResultFile(hist[i].lastResult, hist[i].lastModel))

(***************************************************************************)
(* Success and error of a result.                                          *)
(***************************************************************************)
\* an EvalResult is a success exactly when it carries no error
SuccessIffNoError(r) == r.Success <=> r.Error = <<>>

SeqPassed == {j \in TaskIds : sched.pc = "done" \/ j < sched.i}

\* what a step of a sequential batch does about the correction: no task
\* gets a second correction prompt; the step that ends the re-run of task i
\* stores the re-run's result, whatever it is, and moves on to task i+1 (or
\* ends the batch after the last task) with the corrected model; the stored
\* result of a task the loop has left behind never changes
CorrectionStep ==
    mode = "sequential" =>
        /\ \A j \in TaskIds : hist'[j].prompts <= 1
        /\ sched.pc = "second" /\ sched'.pc # "second" =>
              /\ results'[sched.i] = retry[sched.i].result
              /\ results'[sched.i] = hist[sched.i].lastResult
              /\ hist'[sched.i].prompts = 1
              /\ sched'.i = sched.i + 1
              /\ sched'.pc = IF sched.i + 1 < NumTasks THEN "call" ELSE "done"
              /\ sched'.currentModel = hist[sched.i].corrected
        /\ sched.pc = "call" /\ sched'.pc # "call" =>
              retry'[sched.i].modelStr = sched.currentModel
        /\ \A j \in SeqPassed : results'[j] = results[j]

\* C39: in sequential mode the correction prompt is shown at most once per
\* task; the result of the re-run with the corrected model, failed or not,
\* is kept as the task's result and the batch goes on to the next task with
\* the corrected model
C39_OneCorrectionPerTask == [][CorrectionStep]_vars

\* the re-run of task 0 with the corrected model failed with
\* model-not-found again; that result is stored, no second prompt was
\* shown, and task 1 has been run with the corrected model
C39_Witness ==
    /\ mode = "sequential" /\ 1 \in TaskIds /\ sched.i = 1
    /\ hist[0].prompts = 1 /\ hist[0].corrected \in CorrectedModels
    /\ hist[0].lastModel = hist[0].corrected
    /\ results[0] = hist[0].lastResult
    /\ isModelNotFoundError(results[0].Error)[1]
    /\ hist[1].runs >= 1 /\ hist[1].prompts = 0
    /\ hist[1].lastModel = hist[0].corrected

(***************************************************************************)
(* Properties of the model part of a folder name.                          *)
(***************************************************************************)
\* the characters [a-z0-9._-]
FolderChars == LowerAlpha \cup Digit \cup {".", "_", "-"}

\* C40: for every input the output of sanitizeModelForFolder is non-empty,
\* at most 64 characters long, made of characters of [a-z0-9._-] only, and
\* neither starts nor ends with "-", "_" or "."
C40_SanitizedShape ==
    SanitizeReturned =>
        /\ Len(call.ret) >= 1 /\ Len(call.ret) <= 64
        /\ \A k \in 1..Len(call.ret) : call.ret[k] \in FolderChars
        /\ call.ret[1] \notin {"-", "_", "."}
        /\ call.ret[Len(call.ret)] \notin {"-", "_", "."}

\* an identifier of 65 characters with a ":" inside has been sanitized to
\* exactly 64 characters
C40_Witness ==
    /\ SanitizeReturned
    /\ Len(call.arg) = 65 /\ call.arg[63] = ":"
    /\ Len(call.ret) = 64


=============================================================================
